---- MODULE Spec2Model ----
(***************************************************************************)
(* A model of esexport (alissonsales/esexport): the Elasticsearch client's *)
(* response validation (client/client.go), the sliced scroll cursor        *)
(* (cursor package) and the orchestration in main.go (one goroutine per    *)
(* cursor, a progress reporter, a WaitGroup and the done channel).         *)
(*                                                                         *)
(* The specifications share the definitions of the client and cursor:       *)
(*   Spec        main.go: main, processCursor, printProgress               *)
(*   SpecCursor  the cursor driven as in the cursor tests: a constructor   *)
(*               call with any arguments, then any number of Next() calls  *)
(*   SpecClient  one cursor on top of the client on top of a mocked HTTP   *)
(*               client, as in client_test.go, keeping the HTTP response   *)
(*   SpecOneDoc  the cursor against a backend of one document per response *)
(*   SpecURL     the client's request URLs, as in TestSearchRequestURL     *)
(*   SpecFair    Spec with every goroutine scheduled fairly                *)
(*   SpecPart000 the earlier main.go of src/unnamed/part_000               *)
(***************************************************************************)
EXTENDS Integers, Sequences, FiniteSets, TLC

(***************************************************************************)
(* Bounds of the model.                                                    *)
(***************************************************************************)
\* the largest -sliceSize the orchestrator is started with
MaxSlices == 2
\* constructor arguments id and max range over 0..MaxSliceArg
MaxSliceArg == 2
\* the backend reports hits.total in 0..MaxTotal
MaxTotal == 2
\* a response carries 0..MaxDocs documents
MaxDocs == 2
\* shard counts of a response range over 0..MaxShards
MaxShards == 2
\* Next() calls made on the cursor under test
MaxCalls == 3

(***************************************************************************)
(* Go values.  A nullable *int is <<>> (nil) or <<n>>; the same for any    *)
(* other pointer.  A nil error is NoErr.                                   *)
(***************************************************************************)
Nil == <<>>

Ptr(v) == <<v>>

Deref(p) == p[1]

NoErr == "nil"

ErrMax == "Max must be greater than id"

ErrPost == "post failed"

ErrStatus == "Unexpected response received"

ErrDecode == "Error decoding response"

ErrShards == "Response incomplete"

ErrWrite == "write failed"

StatusOK == 200

(***************************************************************************)
(* The backend's answers.  An HTTP exchange either fails in transport      *)
(* (postErr) or yields a status code and a body that decodes or does not.  *)
(***************************************************************************)
ScrollIDs == {"scroll_a", "scroll_b"}

HitsOf(n) == [k \in 1..n |-> [ID |-> k]]

ShardStats == [Total : {MaxShards}, Successful : 0..MaxShards, Failed : 0..MaxShards]

Bodies ==
    { [ScrollID |-> s, Hits |-> [Total |-> t, Hits |-> HitsOf(n)], Shards |-> sh] :
        s \in ScrollIDs, t \in 0..MaxTotal, n \in 0..MaxDocs, sh \in ShardStats }

NoBody == [ScrollID |-> "", Hits |-> [Total |-> 0, Hits |-> <<>>],
           Shards |-> [Total |-> 0, Successful |-> 0, Failed |-> 0]]

HttpResponses ==
    { [postErr |-> TRUE, StatusCode |-> 0, decodable |-> FALSE, body |-> NoBody] }
    \cup { [postErr |-> FALSE, StatusCode |-> 500, decodable |-> FALSE, body |-> NoBody] }
    \cup { [postErr |-> FALSE, StatusCode |-> StatusOK, decodable |-> FALSE, body |-> NoBody] }
    \cup { [postErr |-> FALSE, StatusCode |-> StatusOK, decodable |-> TRUE, body |-> b] :
             b \in Bodies }

(***************************************************************************)
(* client/client.go                                                        *)
(***************************************************************************)
\* A string of a URL is a sequence of pieces: runs of letters, digits and
\* other characters that need no escaping, and single characters that do.
EmptyString == <<>>

Hosts == { <<"http://localhost:9200">>, <<"http://es:9200">>, <<"invalid-url">> }

Indexes == { EmptyString, <<"my_index">>, <<"logs">> }

DocTypes == { EmptyString, <<"my_type">> }

Routings == { EmptyString, <<"my_routing">>, <<"r", "&", "1">> }

SearchContextTTLs == { EmptyString, <<"1m">> }

\* url.ParseRequestURI(host) accepts an absolute URI or an absolute path
ParseRequestURI(host) == host # <<"invalid-url">>

NewClientStruct(host, index, docType, routing, searchContextTTL) ==
    [host |-> host, index |-> index, docType |-> docType, routing |-> routing,
     searchContextTTL |-> searchContextTTL]

NewClient(host, index, docType, routing, searchContextTTL) ==
    IF ~ParseRequestURI(host) THEN Nil
    ELSE Ptr(NewClientStruct(host, index, docType, routing, searchContextTTL))

\* url.QueryEscape: a space becomes +, a reserved character its %XX form
QueryEscape(s) ==
    [k \in 1..Len(s) |-> IF s[k] = " " THEN "+"
                         ELSE IF s[k] = "&" THEN "%26"
                         ELSE s[k]]

\* the keys of url.Values in sorted order ("routing" sorts before "scroll")
SortedKeys(values) ==
    SelectSeq(<<"routing", "scroll">>, LAMBDA k : k \in DOMAIN values)

RECURSIVE EncodeKeys(_, _)
EncodeKeys(keys, values) ==
    IF keys = <<>> THEN <<>>
    ELSE <<Head(keys), "=">> \o QueryEscape(values[Head(keys)])
         \o (IF Tail(keys) = <<>> THEN <<>> ELSE <<"&">> \o EncodeKeys(Tail(keys), values))

\* url.Values.Encode keeping the order in which the keys were set
EncodeInsertionOrder(values) ==
    EncodeKeys(SelectSeq(<<"scroll", "routing">>, LAMBDA k : k \in DOMAIN values), values)

\* url.Values.Encode: key=value pairs joined by &, sorted by key
Encode(values) == EncodeKeys(SortedKeys(values), values)

\* queryParams after the two Set calls of searchURL
QueryParams(c) ==
    LET keys == (IF c.searchContextTTL # EmptyString THEN {"scroll"} ELSE {})
                \cup (IF c.routing # EmptyString THEN {"routing"} ELSE {})
    IN  [k \in keys |-> IF k = "scroll" THEN c.searchContextTTL ELSE c.routing]

searchURL(c) ==
    c.host
    \o (IF c.index # EmptyString THEN <<"/">> \o c.index
        ELSE IF c.docType # EmptyString THEN <<"/*">>
        ELSE <<>>)
    \o (IF c.docType # EmptyString THEN <<"/">> \o c.docType ELSE <<>>)
    \o <<"/_search">>
    \o (IF DOMAIN QueryParams(c) # {}
        THEN <<"?">> \o Encode(QueryParams(c))
        ELSE <<>>)

\* the URL Scroll posts to
scrollURL(c) == c.host \o <<"/_search/scroll">>

ClientRet(resp, err) == [resp |-> resp, err |-> err]

validateShardsResponseFailedOnly(searchResponse) ==
    IF ~(searchResponse.Shards.Failed = 0) THEN ErrShards ELSE NoErr

validateShardsResponse(searchResponse) ==
    LET shards == searchResponse.Shards
    IN  IF ~(shards.Failed = 0 /\ shards.Successful = shards.Total)
        THEN ErrShards
        ELSE NoErr

searchResponse(resp) ==
    IF resp.StatusCode # StatusOK THEN ClientRet(Nil, ErrStatus)
    ELSE IF ~resp.decodable THEN ClientRet(Nil, ErrDecode)
    ELSE IF validateShardsResponse(resp.body) # NoErr
         THEN ClientRet(Nil, validateShardsResponse(resp.body))
    ELSE ClientRet(Ptr(resp.body), NoErr)

\* Search and Scroll: marshal the request, Post it, then searchResponse
Search(searchBody, h) ==
    IF h.postErr THEN ClientRet(Nil, ErrPost) ELSE searchResponse(h)

Scroll(scrollID, h) ==
    IF h.postErr THEN ClientRet(Nil, ErrPost) ELSE searchResponse(h)

\* everything the client can hand to a cursor
ClientReturns == { Search(Nil, h) : h \in HttpResponses }

\* the backend as main's goroutines meet it: a transport failure, an
\* incomplete-shards rejection, or a response, all with one scroll id
MainReturns ==
    { r \in ClientReturns :
        IF r.err = NoErr THEN Deref(r.resp).ScrollID = "scroll_a"
        ELSE r.err \in {ErrPost, ErrShards} }

(***************************************************************************)
(* The cursor package: SlicedScrollCursor.                                 *)
(* A JSON object is a function from its keys to its values.                *)
(***************************************************************************)
EmptyObject == [k \in {} |-> 0]

Queries ==
    { EmptyObject,
      [query |-> [match_all |-> "{}"], size |-> [n |-> 1000]] }

SliceFields == {"", "my_field"}

SliceArgs == 0..MaxSliceArg

\* the struct literal of NewSlicedScrollCursor: Total, NumDocsRetrieved and
\* lastScrollID keep their zero values
NewCursorStruct(id, max, field, query) ==
    [query |-> query, sliceID |-> id, sliceMax |-> max, sliceField |-> field,
     Total |-> Nil, NumDocsRetrieved |-> Nil, lastScrollID |-> ""]

CtorRet(cursor, err) == [cursor |-> cursor, err |-> err]

NewSlicedScrollCursorIdAboveMax(id, max, field, query) ==
    IF max >= 2 /\ id > max
    THEN CtorRet(Nil, ErrMax)
    ELSE CtorRet(Ptr(NewCursorStruct(id, max, field, query)), NoErr)

NewSlicedScrollCursor(id, max, field, query) ==
    IF max >= 2 /\ id >= max
    THEN CtorRet(Nil, ErrMax)
    ELSE CtorRet(Ptr(NewCursorStruct(id, max, field, query)), NoErr)

SliceOf(ssc) ==
    IF ssc.sliceField # ""
    THEN [id |-> ssc.sliceID, max |-> ssc.sliceMax, field |-> ssc.sliceField]
    ELSE [id |-> ssc.sliceID, max |-> ssc.sliceMax]

searchQuerySliceAlways(ssc) ==
    [k \in DOMAIN ssc.query \cup {"slice"} |->
        IF k = "slice" THEN SliceOf(ssc) ELSE ssc.query[k]]

searchQueryFieldAlways(ssc) ==
    IF ssc.sliceMax > 1
    THEN [k \in DOMAIN ssc.query \cup {"slice"} |->
            IF k = "slice"
            THEN [id |-> ssc.sliceID, max |-> ssc.sliceMax, field |-> ssc.sliceField]
            ELSE ssc.query[k]]
    ELSE [k \in DOMAIN ssc.query |-> ssc.query[k]]

searchQuery(ssc) ==
    IF ssc.sliceMax > 1
    THEN [k \in DOMAIN ssc.query \cup {"slice"} |->
            IF k = "slice" THEN SliceOf(ssc) ELSE ssc.query[k]]
    ELSE [k \in DOMAIN ssc.query |-> ssc.query[k]]

\* done() comparing with > instead of ==
doneWhenPastTotal(ssc) == Deref(ssc.NumDocsRetrieved) > Deref(ssc.Total)

\* done() comparing the two pointers instead of the integers they point to:
\* Total points into the response and NumDocsRetrieved at a local of search(),
\* so they are equal only when both are nil
doneComparesPointers(ssc) == ssc.NumDocsRetrieved = Nil /\ ssc.Total = Nil

done(ssc) == Deref(ssc.NumDocsRetrieved) = Deref(ssc.Total)

\* what one call of Next leaves: the cursor, the returned hits and error, and
\* the requests it sent to the client
NextRet(cursor, hits, err, calls) ==
    [cursor |-> cursor, hits |-> hits, err |-> err, calls |-> calls]

SearchCall(body) == [op |-> "search", body |-> body]

ScrollCall(id) == [op |-> "scroll", id |-> id]

\* search(), first store: ssc.Total = &resp.Hits.Total
searchStoreTotal(ssc, resp) ==
    [ssc EXCEPT !.Total = Ptr(resp.Hits.Total)]

\* search() storing NumDocsRetrieved only for a batch that has documents
searchStoreRestIfHits(ssc, resp) ==
    IF Len(resp.Hits.Hits) > 0
    THEN [ssc EXCEPT !.NumDocsRetrieved = Ptr(Len(resp.Hits.Hits)),
                     !.lastScrollID = resp.ScrollID]
    ELSE [ssc EXCEPT !.lastScrollID = resp.ScrollID]

\* search(), the other stores: NumDocsRetrieved and lastScrollID
searchStoreRest(ssc, resp) ==
    [ssc EXCEPT !.NumDocsRetrieved = Ptr(Len(resp.Hits.Hits)),
                !.lastScrollID = resp.ScrollID]

searchStoresBeforeErrCheck(ssc, r) ==
    IF r.err # NoErr
    THEN NextRet([ssc EXCEPT !.Total = Ptr(0), !.NumDocsRetrieved = Ptr(0)],
                 <<>>, r.err, <<SearchCall(searchQuery(ssc))>>)
    ELSE NextRet(searchStoreRest(searchStoreTotal(ssc, Deref(r.resp)), Deref(r.resp)),
                 Deref(r.resp).Hits.Hits, r.err, <<SearchCall(searchQuery(ssc))>>)

\* searchQuery adding the slice clause to the cursor's own map, not a copy
searchAliasesQuery(ssc, r) ==
    IF r.err # NoErr
    THEN NextRet([ssc EXCEPT !.query = searchQuery(ssc)],
                 <<>>, r.err, <<SearchCall(searchQuery(ssc))>>)
    ELSE NextRet(searchStoreRest(searchStoreTotal([ssc EXCEPT !.query = searchQuery(ssc)],
                                                  Deref(r.resp)), Deref(r.resp)),
                 Deref(r.resp).Hits.Hits, r.err, <<SearchCall(searchQuery(ssc))>>)

search(ssc, r) ==
    IF r.err # NoErr
    THEN NextRet(ssc, <<>>, r.err, <<SearchCall(searchQuery(ssc))>>)
    ELSE NextRet(searchStoreRest(searchStoreTotal(ssc, Deref(r.resp)), Deref(r.resp)),
                 Deref(r.resp).Hits.Hits, r.err, <<SearchCall(searchQuery(ssc))>>)

scrollTakesTotal(ssc, id, r) ==
    IF r.err # NoErr
    THEN NextRet(ssc, <<>>, r.err, <<ScrollCall(id)>>)
    ELSE NextRet([ssc EXCEPT
                    !.Total = Ptr(Deref(r.resp).Hits.Total),
                    !.NumDocsRetrieved =
                        Ptr(Len(Deref(r.resp).Hits.Hits) + Deref(ssc.NumDocsRetrieved)),
                    !.lastScrollID = Deref(r.resp).ScrollID],
                 Deref(r.resp).Hits.Hits, r.err, <<ScrollCall(id)>>)

scrollOverwrites(ssc, id, r) ==
    IF r.err # NoErr
    THEN NextRet(ssc, <<>>, r.err, <<ScrollCall(id)>>)
    ELSE NextRet([ssc EXCEPT
                    !.NumDocsRetrieved = Ptr(Len(Deref(r.resp).Hits.Hits)),
                    !.lastScrollID = Deref(r.resp).ScrollID],
                 Deref(r.resp).Hits.Hits, r.err, <<ScrollCall(id)>>)

\* scroll() not storing the response's scroll id
scrollKeepsToken(ssc, id, r) ==
    IF r.err # NoErr
    THEN NextRet(ssc, <<>>, r.err, <<ScrollCall(id)>>)
    ELSE NextRet([ssc EXCEPT
                    !.NumDocsRetrieved =
                        Ptr(Len(Deref(r.resp).Hits.Hits) + Deref(ssc.NumDocsRetrieved))],
                 Deref(r.resp).Hits.Hits, r.err, <<ScrollCall(id)>>)

\* scroll() forgetting the scroll id when the request failed
scrollFailureDropsToken(ssc, id, r) ==
    IF r.err # NoErr
    THEN NextRet([ssc EXCEPT !.lastScrollID = ""], <<>>, r.err, <<ScrollCall(id)>>)
    ELSE NextRet([ssc EXCEPT
                    !.NumDocsRetrieved =
                        Ptr(Len(Deref(r.resp).Hits.Hits) + Deref(ssc.NumDocsRetrieved)),
                    !.lastScrollID = Deref(r.resp).ScrollID],
                 Deref(r.resp).Hits.Hits, r.err, <<ScrollCall(id)>>)

scroll(ssc, id, r) ==
    IF r.err # NoErr
    THEN NextRet(ssc, <<>>, r.err, <<ScrollCall(id)>>)
    ELSE NextRet([ssc EXCEPT
                    !.NumDocsRetrieved =
                        Ptr(Len(Deref(r.resp).Hits.Hits) + Deref(ssc.NumDocsRetrieved)),
                    !.lastScrollID = Deref(r.resp).ScrollID],
                 Deref(r.resp).Hits.Hits, r.err, <<ScrollCall(id)>>)

\* Next with the done() test left out: an exhausted cursor scrolls again
NextScrollsWhenDone(ssc, r) ==
    IF ssc.Total = Nil THEN search(ssc, r)
    ELSE scroll(ssc, ssc.lastScrollID, r)

\* r is what the client returns if this call reaches it
Next(ssc, r) ==
    IF ssc.Total = Nil THEN search(ssc, r)
    ELSE IF ~done(ssc) THEN scroll(ssc, ssc.lastScrollID, r)
    ELSE NextRet(ssc, <<>>, NoErr, <<>>)

(***************************************************************************)
(* State.                                                                  *)
(*                                                                         *)
(* The cursor under test (SpecCursor, SpecClient):                         *)
(*   ssc          the cursor NewSlicedScrollCursor returned, or Nil        *)
(*   ctorArgs     the arguments of that call, Nil before it                *)
(*   ctorErr      the error it returned                                    *)
(*   mock         the mock client's SearchArgsReceived/ScrollArgsReceived  *)
(*   last         what the latest Next() returned and which request it made*)
(*   backendErr   the error the client returned to that call               *)
(*   nCalls, nSearch, nScroll   Next() calls made, requests received       *)
(*   okCount, sumDocs, firstTotal   the successful responses so far: how   *)
(*                many, their documents summed, the first one's hits.total *)
(*   okToken      the _scroll_id of the latest successful response         *)
(*   lastHttp, lastRet   (SpecClient) the HTTP response of the latest      *)
(*                request and what the client returned for it              *)
(*   esClient, postURL   (SpecURL) the Client NewClient returned, and the  *)
(*                URL the mocked HTTP client received last                 *)
(*                                                                         *)
(* main.go (Spec):                                                         *)
(*   sliceSize, outputFile   the flags: the slice count, whether -output   *)
(*                is set                                                   *)
(*   mainPc, mi   main's position and its loop index                       *)
(*   cursors      the cursors slice: Nil or a cursor per index             *)
(*   wg           the WaitGroup counter                                    *)
(*   taskPc, taskHits, taskResp, taskErr   each goroutine's position in    *)
(*                processCursor/Next, the batch it is writing, the         *)
(*                response search() is storing, the error it printed       *)
(*   taskLast     what the goroutine's latest Next() returned              *)
(*   file         the lines written to the output file                     *)
(*   yielded      the documents of the batches Next() returned, per cursor *)
(*   repPc, repK, repC, repT   printProgress: its position, and            *)
(*                processingProgress's loop index and sums                 *)
(*   current, total   printProgress's current and total                    *)
(*   printed      the latest progress line printed, Nil before the first   *)
(*   exited       the process has ended, with this exit code               *)
(***************************************************************************)
VARIABLES ssc, ctorArgs, ctorErr, mock, last, backendErr,
          nCalls, nSearch, nScroll, okCount, sumDocs, firstTotal, okToken,
          lastHttp, lastRet, esClient, postURL,
          sliceSize, outputFile, mainPc, mi, cursors, wg,
          taskPc, taskHits, taskResp, taskErr, taskLast, file, yielded,
          repPc, repK, repC, repT, current, total, printed, exited

testVars == <<ssc, ctorArgs, ctorErr, mock, last, backendErr,
              nCalls, nSearch, nScroll, okCount, sumDocs, firstTotal, okToken>>

httpVars == <<lastHttp, lastRet, esClient, postURL>>

mainVars == <<sliceSize, outputFile, mainPc, mi, cursors, wg,
              taskPc, taskHits, taskResp, taskErr, taskLast, file, yielded,
              repPc, repK, repC, repT, current, total, printed, exited>>

vars == <<testVars, httpVars, mainVars>>

\* the backend of the model stops adding documents once a cursor holds
\* MaxRetrieved of them: one more than any hits.total it reports
MaxRetrieved == MaxTotal + 1

WithinModel(c) ==
    c.NumDocsRetrieved # Nil => Deref(c.NumDocsRetrieved) <= MaxRetrieved

NoCall == [op |-> "none", hits |-> <<>>, err |-> NoErr]

TestInit ==
    /\ ssc = Nil
    /\ ctorArgs = Nil
    /\ ctorErr = NoErr
    /\ mock = [SearchBody |-> Nil, ScrollID |-> Nil]
    /\ last = NoCall
    /\ backendErr = NoErr
    /\ nCalls = 0
    /\ nSearch = 0
    /\ nScroll = 0
    /\ okCount = 0
    /\ sumDocs = 0
    /\ firstTotal = Nil
    /\ okToken = ""
    /\ lastHttp = Nil
    /\ lastRet = Nil
    /\ esClient = Nil
    /\ postURL = Nil

(***************************************************************************)
(* The cursor tests: NewSlicedScrollCursor(mockClient, id, max, field,     *)
(* query), then cursor.Next() against whatever the mock client returns.    *)
(***************************************************************************)
TestNewSlicedScrollCursor(id, max, field, query) ==
    /\ ctorArgs = Nil
    /\ ctorArgs' = Ptr([id |-> id, max |-> max, field |-> field, query |-> query])
    /\ ssc' = NewSlicedScrollCursor(id, max, field, query).cursor
    /\ ctorErr' = NewSlicedScrollCursor(id, max, field, query).err
    /\ UNCHANGED <<mock, last, backendErr, nCalls, nSearch, nScroll,
                   okCount, sumDocs, firstTotal, okToken>>

\* the mock client records the arguments of the requests it receives
MockReceives(m, calls) ==
    IF calls = <<>> THEN m
    ELSE IF calls[1].op = "search"
         THEN [m EXCEPT !.SearchBody = Ptr(calls[1].body)]
         ELSE [m EXCEPT !.ScrollID = Ptr(calls[1].id)]

CountOf(calls, op) == IF calls # <<>> /\ calls[1].op = op THEN 1 ELSE 0

\* cursor.Next() where the client, if called, returns r
TestNextReturning(r) ==
    /\ ssc # Nil
    /\ nCalls < MaxCalls
    /\ LET res == Next(Deref(ssc), r)
           called == res.calls # <<>>
           ok == called /\ r.err = NoErr
       IN  /\ WithinModel(res.cursor)
           /\ ssc' = Ptr(res.cursor)
           /\ last' = [op |-> IF called THEN res.calls[1].op ELSE "none",
                       hits |-> res.hits, err |-> res.err]
           /\ mock' = MockReceives(mock, res.calls)
           /\ backendErr' = IF called THEN r.err ELSE NoErr
           /\ nCalls' = nCalls + 1
           /\ nSearch' = nSearch + CountOf(res.calls, "search")
           /\ nScroll' = nScroll + CountOf(res.calls, "scroll")
           /\ okCount' = IF ok THEN okCount + 1 ELSE okCount
           /\ sumDocs' = IF ok THEN sumDocs + Len(Deref(r.resp).Hits.Hits) ELSE sumDocs
           /\ firstTotal' = IF ok /\ okCount = 0
                            THEN Ptr(Deref(r.resp).Hits.Total)
                            ELSE firstTotal
           /\ okToken' = IF ok THEN Deref(r.resp).ScrollID ELSE okToken
    /\ UNCHANGED <<ctorArgs, ctorErr>>

TestNew ==
    /\ \E id \in SliceArgs, max \in SliceArgs, field \in SliceFields, query \in Queries :
          TestNewSlicedScrollCursor(id, max, field, query)
    /\ UNCHANGED <<httpVars, mainVars>>

TestNext ==
    /\ \E r \in ClientReturns : TestNextReturning(r)
    /\ UNCHANGED <<httpVars, mainVars>>

(***************************************************************************)
(* main.go.  The flags -query and -sliceField keep their defaults; the     *)
(* slice count and -output are inputs.                                     *)
(***************************************************************************)
Slots == 0..(MaxSlices - 1)

FlagQuery == EmptyObject

FlagSliceField == ""

MainInit ==
    /\ sliceSize \in 0..MaxSlices
    /\ outputFile \in BOOLEAN
    /\ mainPc = "loop"
    /\ mi = 0
    /\ cursors = [i \in Slots |-> Nil]
    /\ wg = 0
    /\ taskPc = [i \in Slots |-> "none"]
    /\ taskHits = [i \in Slots |-> <<>>]
    /\ taskResp = [i \in Slots |-> Nil]
    /\ taskErr = [i \in Slots |-> NoErr]
    /\ taskLast = [i \in Slots |-> "none"]
    /\ file = [i \in Slots |-> <<>>]
    /\ yielded = [i \in Slots |-> <<>>]
    /\ repPc = "none"
    /\ repK = 0
    /\ repC = 0
    /\ repT = 0
    /\ current = Nil
    /\ total = Nil
    /\ printed = Nil
    /\ exited = Nil

\* the state of a specification that does not run main
MainIdle ==
    /\ sliceSize = 0
    /\ outputFile = FALSE
    /\ mainPc = "idle"
    /\ mi = 0
    /\ cursors = [i \in Slots |-> Nil]
    /\ wg = 0
    /\ taskPc = [i \in Slots |-> "none"]
    /\ taskHits = [i \in Slots |-> <<>>]
    /\ taskResp = [i \in Slots |-> Nil]
    /\ taskErr = [i \in Slots |-> NoErr]
    /\ taskLast = [i \in Slots |-> "none"]
    /\ file = [i \in Slots |-> <<>>]
    /\ yielded = [i \in Slots |-> <<>>]
    /\ repPc = "none"
    /\ repK = 0
    /\ repC = 0
    /\ repT = 0
    /\ current = Nil
    /\ total = Nil
    /\ printed = Nil
    /\ exited = Nil

Running == exited = Nil

\* main numbering the slices from 1: NewSlicedScrollCursor(esClient, i + 1, ...)
MainCreateOneBased ==
    /\ Running
    /\ mainPc = "loop"
    /\ mi < sliceSize
    /\ LET ret == NewSlicedScrollCursor(mi + 1, sliceSize, FlagSliceField, FlagQuery)
       IN  IF ret.err # NoErr
           THEN /\ mainPc' = "exited"
                /\ exited' = Ptr(1)
                /\ UNCHANGED <<mi, cursors, wg, taskPc>>
           ELSE /\ cursors' = [cursors EXCEPT ![mi] = ret.cursor]
                /\ wg' = wg + 1
                /\ taskPc' = [taskPc EXCEPT ![mi] = "next"]
                /\ mi' = mi + 1
                /\ UNCHANGED <<mainPc, exited>>
    /\ UNCHANGED <<sliceSize, outputFile, taskHits, taskResp, taskErr, taskLast, file, yielded,
                   repPc, repK, repC, repT, current, total, printed>>
    /\ UNCHANGED <<testVars, httpVars>>

\* main, the loop body: construct cursor mi, wg.Add(1), start its goroutine
MainCreate ==
    /\ Running
    /\ mainPc = "loop"
    /\ mi < sliceSize
    /\ LET ret == NewSlicedScrollCursor(mi, sliceSize, FlagSliceField, FlagQuery)
       IN  IF ret.err # NoErr
           THEN /\ mainPc' = "exited"
                /\ exited' = Ptr(1)
                /\ UNCHANGED <<mi, cursors, wg, taskPc>>
           ELSE /\ cursors' = [cursors EXCEPT ![mi] = ret.cursor]
                /\ wg' = wg + 1
                /\ taskPc' = [taskPc EXCEPT ![mi] = "next"]
                /\ mi' = mi + 1
                /\ UNCHANGED <<mainPc, exited>>
    /\ UNCHANGED <<sliceSize, outputFile, taskHits, taskResp, taskErr, taskLast, file, yielded,
                   repPc, repK, repC, repT, current, total, printed>>
    /\ UNCHANGED <<testVars, httpVars>>

\* done := make(chan struct{}); go printProgress(cursors, done)
MainStartReporter ==
    /\ Running
    /\ mainPc = "loop"
    /\ mi = sliceSize
    /\ mainPc' = "wait"
    /\ repPc' = "select"
    /\ UNCHANGED <<sliceSize, outputFile, mi, cursors, wg, taskPc, taskHits, taskResp,
                   taskErr, taskLast, file, yielded, repK, repC, repT, current, total, printed,
                   exited>>
    /\ UNCHANGED <<testVars, httpVars>>

MainWaitNoBarrier ==
    /\ Running
    /\ mainPc = "wait"
    /\ mainPc' = "send"
    /\ UNCHANGED <<sliceSize, outputFile, mi, cursors, wg, taskPc, taskHits, taskResp,
                   taskErr, taskLast, file, yielded, repPc, repK, repC, repT, current, total,
                   printed, exited>>
    /\ UNCHANGED <<testVars, httpVars>>

\* wg.Wait() returns
MainWait ==
    /\ Running
    /\ mainPc = "wait"
    /\ wg = 0
    /\ mainPc' = "send"
    /\ UNCHANGED <<sliceSize, outputFile, mi, cursors, wg, taskPc, taskHits, taskResp,
                   taskErr, taskLast, file, yielded, repPc, repK, repC, repT, current, total,
                   printed, exited>>
    /\ UNCHANGED <<testVars, httpVars>>

\* done <- struct{}{} in main meets case <-done in printProgress: break timer
MainSendDone ==
    /\ Running
    /\ mainPc = "send"
    /\ repPc = "select"
    /\ mainPc' = "recv"
    /\ repPc' = "final"
    /\ UNCHANGED <<sliceSize, outputFile, mi, cursors, wg, taskPc, taskHits, taskResp,
                   taskErr, taskLast, file, yielded, repK, repC, repT, current, total, printed,
                   exited>>
    /\ UNCHANGED <<testVars, httpVars>>

\* done <- struct{}{} in printProgress meets <-done in main
MainRecvDone ==
    /\ Running
    /\ mainPc = "recv"
    /\ repPc = "ack"
    /\ mainPc' = "println"
    /\ repPc' = "stopped"
    /\ UNCHANGED <<sliceSize, outputFile, mi, cursors, wg, taskPc, taskHits, taskResp,
                   taskErr, taskLast, file, yielded, repK, repC, repT, current, total, printed,
                   exited>>
    /\ UNCHANGED <<testVars, httpVars>>

\* fmt.Println("\r") and the return of main: the process ends with status 0
MainReturn ==
    /\ Running
    /\ mainPc = "println"
    /\ mainPc' = "exited"
    /\ exited' = Ptr(0)
    /\ UNCHANGED <<sliceSize, outputFile, mi, cursors, wg, taskPc, taskHits, taskResp,
                   taskErr, taskLast, file, yielded, repPc, repK, repC, repT, current, total,
                   printed>>
    /\ UNCHANGED <<testVars, httpVars>>

(***************************************************************************)
(* The goroutine of cursor i: processCursor, and the Next() it calls.      *)
(* search() stores Total and NumDocsRetrieved one after the other while    *)
(* printProgress reads them, so its stores are two steps.                  *)
(***************************************************************************)
\* a failed cursor takes the process down: os.Exit(1) in the goroutine
TaskReturnExits(i, err) ==
    IF err # NoErr
    THEN /\ taskErr' = [taskErr EXCEPT ![i] = err]
         /\ exited' = Ptr(1)
         /\ mainPc' = "exited"
         /\ UNCHANGED <<taskPc, wg>>
    ELSE /\ taskErr' = [taskErr EXCEPT ![i] = err]
         /\ taskPc' = [taskPc EXCEPT ![i] = "ended"]
         /\ wg' = wg - 1
         /\ UNCHANGED <<mainPc, exited>>

\* processCursor returned err: the goroutine prints it if it is not nil, then
\* its deferred wg.Done() runs
TaskReturn(i, err) ==
    /\ taskErr' = [taskErr EXCEPT ![i] = err]
    /\ taskPc' = [taskPc EXCEPT ![i] = "ended"]
    /\ wg' = wg - 1
    /\ UNCHANGED <<mainPc, exited>>

\* the documents of a batch, by their _id
IDsOf(hits) == [k \in 1..Len(hits) |-> hits[k].ID]

\* processCursor going round its loop again after an error from Next()
TaskAfterNextRetries(i, hits, err) ==
    IF err # NoErr
    THEN /\ taskErr' = [taskErr EXCEPT ![i] = err]
         /\ taskLast' = [taskLast EXCEPT ![i] = "error"]
         /\ UNCHANGED <<taskPc, wg, mainPc, exited, taskHits, yielded>>
    ELSE IF Len(hits) = 0
    THEN /\ TaskReturn(i, NoErr)
         /\ taskLast' = [taskLast EXCEPT ![i] = "empty"]
         /\ UNCHANGED <<taskHits, yielded>>
    ELSE /\ taskLast' = [taskLast EXCEPT ![i] = "batch"]
         /\ yielded' = [yielded EXCEPT ![i] = @ \o IDsOf(hits)]
         /\ taskHits' = [taskHits EXCEPT ![i] = IF outputFile THEN hits ELSE <<>>]
         /\ taskPc' = [taskPc EXCEPT ![i] = IF outputFile THEN "write" ELSE "next"]
         /\ UNCHANGED <<taskErr, wg, mainPc, exited>>

\* processCursor leaving its loop after the first batch it was given
TaskAfterNextOneBatch(i, hits, err) ==
    IF err # NoErr
    THEN /\ TaskReturn(i, err)
         /\ taskLast' = [taskLast EXCEPT ![i] = "error"]
         /\ UNCHANGED <<taskHits, yielded>>
    ELSE IF Len(hits) = 0
    THEN /\ TaskReturn(i, NoErr)
         /\ taskLast' = [taskLast EXCEPT ![i] = "empty"]
         /\ UNCHANGED <<taskHits, yielded>>
    ELSE /\ TaskReturn(i, NoErr)
         /\ taskLast' = [taskLast EXCEPT ![i] = "batch"]
         /\ yielded' = [yielded EXCEPT ![i] = @ \o IDsOf(hits)]
         /\ UNCHANGED taskHits

\* processCursor after hits, err := ssc.Next()
TaskAfterNext(i, hits, err) ==
    IF err # NoErr
    THEN /\ TaskReturn(i, err)
         /\ taskLast' = [taskLast EXCEPT ![i] = "error"]
         /\ UNCHANGED <<taskHits, yielded>>
    ELSE IF Len(hits) = 0
    THEN /\ TaskReturn(i, NoErr)
         /\ taskLast' = [taskLast EXCEPT ![i] = "empty"]
         /\ UNCHANGED <<taskHits, yielded>>
    ELSE /\ taskLast' = [taskLast EXCEPT ![i] = "batch"]
         /\ yielded' = [yielded EXCEPT ![i] = @ \o IDsOf(hits)]
         /\ taskHits' = [taskHits EXCEPT ![i] = IF outputFile THEN hits ELSE <<>>]
         /\ taskPc' = [taskPc EXCEPT ![i] = IF outputFile THEN "write" ELSE "next"]
         /\ UNCHANGED <<taskErr, wg, mainPc, exited>>

\* ssc.Next(): a failed search, a scroll, or the exhausted cursor's empty
\* batch, each in one step; a successful search stores Total and goes on in
\* TaskSearchStore
TaskNext(i) ==
    /\ Running
    /\ taskPc[i] = "next"
    /\ \E r \in MainReturns :
         LET c == Deref(cursors[i])
         IN  IF c.Total = Nil /\ r.err = NoErr
             THEN /\ cursors' = [cursors EXCEPT
                                   ![i] = Ptr(searchStoreTotal(c, Deref(r.resp)))]
                  /\ taskResp' = [taskResp EXCEPT ![i] = r.resp]
                  /\ taskPc' = [taskPc EXCEPT ![i] = "searchStore"]
                  /\ UNCHANGED <<taskHits, taskErr, taskLast, yielded, wg, mainPc, exited>>
             ELSE LET res == Next(c, r)
                  IN  /\ WithinModel(res.cursor)
                      /\ cursors' = [cursors EXCEPT ![i] = Ptr(res.cursor)]
                      /\ TaskAfterNext(i, res.hits, res.err)
                      /\ UNCHANGED taskResp
    /\ UNCHANGED <<sliceSize, outputFile, mi, file,
                   repPc, repK, repC, repT, current, total, printed>>
    /\ UNCHANGED <<testVars, httpVars>>

\* search(), from ssc.NumDocsRetrieved = &totalReturned to its return
TaskSearchStore(i) ==
    /\ Running
    /\ taskPc[i] = "searchStore"
    /\ LET resp == Deref(taskResp[i])
       IN  /\ cursors' = [cursors EXCEPT
                            ![i] = Ptr(searchStoreRest(Deref(cursors[i]), resp))]
           /\ TaskAfterNext(i, resp.Hits.Hits, NoErr)
    /\ taskResp' = [taskResp EXCEPT ![i] = Nil]
    /\ UNCHANGED <<sliceSize, outputFile, mi, file,
                   repPc, repK, repC, repT, current, total, printed>>
    /\ UNCHANGED <<testVars, httpVars>>

\* writeHitsToFile returning after the first hit of the batch
TaskWriteOneThenNext(i) ==
    /\ Running
    /\ taskPc[i] = "write"
    /\ \E ok \in BOOLEAN :
         IF ok
         THEN /\ file' = [file EXCEPT ![i] = Append(@, Head(taskHits[i]).ID)]
              /\ taskHits' = [taskHits EXCEPT ![i] = <<>>]
              /\ taskPc' = [taskPc EXCEPT ![i] = "next"]
              /\ UNCHANGED <<taskErr, wg, mainPc, exited>>
         ELSE /\ TaskReturn(i, ErrWrite)
              /\ UNCHANGED <<file, taskHits>>
    /\ UNCHANGED <<sliceSize, outputFile, mi, cursors, taskResp, taskLast, yielded,
                   repPc, repK, repC, repT, current, total, printed>>
    /\ UNCHANGED <<testVars, httpVars>>

\* writeHitsToFile ranging over the batch from its last hit to its first
TaskWriteLastFirst(i) ==
    /\ Running
    /\ taskPc[i] = "write"
    /\ \E ok \in BOOLEAN :
         IF ok
         THEN /\ file' = [file EXCEPT ![i] = Append(@, taskHits[i][Len(taskHits[i])].ID)]
              /\ taskHits' = [taskHits EXCEPT ![i] = SubSeq(@, 1, Len(@) - 1)]
              /\ taskPc' = [taskPc EXCEPT
                              ![i] = IF Len(taskHits[i]) = 1 THEN "next" ELSE "write"]
              /\ UNCHANGED <<taskErr, wg, mainPc, exited>>
         ELSE /\ TaskReturn(i, ErrWrite)
              /\ UNCHANGED <<file, taskHits>>
    /\ UNCHANGED <<sliceSize, outputFile, mi, cursors, taskResp, taskLast, yielded,
                   repPc, repK, repC, repT, current, total, printed>>
    /\ UNCHANGED <<testVars, httpVars>>

\* writeHitsToFile, one hit: f.Write succeeds or fails.  file[i] is the part
\* of the output file that cursor i wrote.
TaskWrite(i) ==
    /\ Running
    /\ taskPc[i] = "write"
    /\ \E ok \in BOOLEAN :
         IF ok
         THEN /\ file' = [file EXCEPT ![i] = Append(@, Head(taskHits[i]).ID)]
              /\ taskHits' = [taskHits EXCEPT ![i] = Tail(@)]
              /\ taskPc' = [taskPc EXCEPT
                              ![i] = IF Tail(taskHits[i]) = <<>> THEN "next" ELSE "write"]
              /\ UNCHANGED <<taskErr, wg, mainPc, exited>>
         ELSE /\ TaskReturn(i, ErrWrite)
              /\ UNCHANGED <<file, taskHits>>
    /\ UNCHANGED <<sliceSize, outputFile, mi, cursors, taskResp, taskLast, yielded,
                   repPc, repK, repC, repT, current, total, printed>>
    /\ UNCHANGED <<testVars, httpVars>>

(***************************************************************************)
(* printProgress and processingProgress.                                   *)
(***************************************************************************)
\* fmt's %.0f of (current / total) * 100: rounded to the nearest integer,
\* a tie to the even one
Percent(c, t) ==
    IF t > 0
    THEN LET q == (100 * c) \div t
             twice == 2 * ((100 * c) % t)
         IN  IF twice > t \/ (twice = t /\ q % 2 = 1) THEN q + 1 ELSE q
    ELSE 0

Line(c, t, pct, final) == [current |-> c, total |-> t, percent |-> pct, final |-> final]

\* processingProgress keeping its sums t and c from one call to the next
ReporterTickKeepsSums ==
    /\ Running
    /\ repPc = "select"
    /\ mainPc # "send"
    /\ repPc' = "read"
    /\ repK' = 0
    /\ UNCHANGED <<repC, repT>>
    /\ UNCHANGED <<sliceSize, outputFile, mainPc, mi, cursors, wg, taskPc, taskHits,
                   taskResp, taskErr, taskLast, file, yielded, current, total, printed, exited>>
    /\ UNCHANGED <<testVars, httpVars>>

\* the default case of the select: sleep, then enter processingProgress
ReporterTick ==
    /\ Running
    /\ repPc = "select"
    /\ mainPc # "send"
    /\ repPc' = "read"
    /\ repK' = 0
    /\ repC' = 0
    /\ repT' = 0
    /\ UNCHANGED <<sliceSize, outputFile, mainPc, mi, cursors, wg, taskPc, taskHits,
                   taskResp, taskErr, taskLast, file, yielded, current, total, printed, exited>>
    /\ UNCHANGED <<testVars, httpVars>>

\* processingProgress counting a cursor with a nil counter as 0 documents
ReporterReadSkipsUnknown ==
    /\ Running
    /\ repPc = "read"
    /\ repK < sliceSize
    /\ LET c == Deref(cursors[repK])
       IN  IF c.Total # Nil /\ c.NumDocsRetrieved # Nil
           THEN /\ repT' = repT + Deref(c.Total)
                /\ repC' = repC + Deref(c.NumDocsRetrieved)
           ELSE UNCHANGED <<repC, repT>>
    /\ repK' = repK + 1
    /\ UNCHANGED <<repPc, current, total>>
    /\ UNCHANGED <<sliceSize, outputFile, mainPc, mi, cursors, wg, taskPc, taskHits,
                   taskResp, taskErr, taskLast, file, yielded, printed, exited>>
    /\ UNCHANGED <<testVars, httpVars>>

\* processingProgress keeping the counters of the last cursor instead of sums
ReporterReadKeepsLast ==
    /\ Running
    /\ repPc = "read"
    /\ repK < sliceSize
    /\ LET c == Deref(cursors[repK])
       IN  IF c.Total # Nil /\ c.NumDocsRetrieved # Nil
           THEN /\ repT' = Deref(c.Total)
                /\ repC' = Deref(c.NumDocsRetrieved)
                /\ repK' = repK + 1
                /\ UNCHANGED <<repPc, current, total>>
           ELSE /\ current' = Nil
                /\ total' = Nil
                /\ repPc' = "select"
                /\ UNCHANGED <<repK, repC, repT>>
    /\ UNCHANGED <<sliceSize, outputFile, mainPc, mi, cursors, wg, taskPc, taskHits,
                   taskResp, taskErr, taskLast, file, yielded, printed, exited>>
    /\ UNCHANGED <<testVars, httpVars>>

\* processingProgress cutting a cursor's count down to its total
ReporterReadClampsCursor ==
    /\ Running
    /\ repPc = "read"
    /\ repK < sliceSize
    /\ LET c == Deref(cursors[repK])
       IN  IF c.Total # Nil /\ c.NumDocsRetrieved # Nil
           THEN /\ repT' = repT + Deref(c.Total)
                /\ repC' = repC + Deref(c.NumDocsRetrieved)
                /\ repK' = repK + 1
                /\ cursors' = IF Deref(c.NumDocsRetrieved) > Deref(c.Total)
                              THEN [cursors EXCEPT
                                      ![repK] = Ptr([c EXCEPT !.NumDocsRetrieved = c.Total])]
                              ELSE cursors
                /\ UNCHANGED <<repPc, current, total>>
           ELSE /\ current' = Nil
                /\ total' = Nil
                /\ repPc' = "select"
                /\ UNCHANGED <<repK, repC, repT, cursors>>
    /\ UNCHANGED <<sliceSize, outputFile, mainPc, mi, wg, taskPc, taskHits,
                   taskResp, taskErr, taskLast, file, yielded, printed, exited>>
    /\ UNCHANGED <<testVars, httpVars>>

\* processingProgress, one iteration of its loop: cursor repK
ReporterRead ==
    /\ Running
    /\ repPc = "read"
    /\ repK < sliceSize
    /\ LET c == Deref(cursors[repK])
       IN  IF c.Total # Nil /\ c.NumDocsRetrieved # Nil
           THEN /\ repT' = repT + Deref(c.Total)
                /\ repC' = repC + Deref(c.NumDocsRetrieved)
                /\ repK' = repK + 1
                /\ UNCHANGED <<repPc, current, total>>
           ELSE /\ current' = Nil
                /\ total' = Nil
                /\ repPc' = "select"
                /\ UNCHANGED <<repK, repC, repT>>
    /\ UNCHANGED <<sliceSize, outputFile, mainPc, mi, cursors, wg, taskPc, taskHits,
                   taskResp, taskErr, taskLast, file, yielded, printed, exited>>
    /\ UNCHANGED <<testVars, httpVars>>

\* processingProgress returns &c, &t and printProgress prints the line
ReporterPrint ==
    /\ Running
    /\ repPc = "read"
    /\ repK = sliceSize
    /\ current' = Ptr(repC)
    /\ total' = Ptr(repT)
    /\ printed' = Ptr(Line(repC, repT, Percent(repC, repT), FALSE))
    /\ repPc' = "select"
    /\ UNCHANGED <<sliceSize, outputFile, mainPc, mi, cursors, wg, taskPc, taskHits,
                   taskResp, taskErr, taskLast, file, yielded, repK, repC, repT, exited>>
    /\ UNCHANGED <<testVars, httpVars>>

\* printProgress printing a final line whether or not it holds an aggregate
ReporterFinalAlways ==
    /\ Running
    /\ repPc = "final"
    /\ printed' = IF current # Nil /\ total # Nil
                  THEN Ptr(Line(Deref(current), Deref(total), 100, TRUE))
                  ELSE Ptr(Line(0, 0, 100, TRUE))
    /\ repPc' = "ack"
    /\ UNCHANGED <<sliceSize, outputFile, mainPc, mi, cursors, wg, taskPc, taskHits,
                   taskResp, taskErr, taskLast, file, yielded, repK, repC, repT, current, total,
                   exited>>
    /\ UNCHANGED <<testVars, httpVars>>

\* printProgress answering on done only after it printed a final line
ReporterFinalAcksAfterLine ==
    /\ Running
    /\ repPc = "final"
    /\ printed' = IF current # Nil /\ total # Nil
                  THEN Ptr(Line(Deref(current), Deref(total), 100, TRUE))
                  ELSE printed
    /\ repPc' = IF current # Nil /\ total # Nil THEN "ack" ELSE "stopped"
    /\ UNCHANGED <<sliceSize, outputFile, mainPc, mi, cursors, wg, taskPc, taskHits,
                   taskResp, taskErr, taskLast, file, yielded, repK, repC, repT, current, total,
                   exited>>
    /\ UNCHANGED <<testVars, httpVars>>

\* after the loop: the final line, if current and total are not nil
ReporterFinal ==
    /\ Running
    /\ repPc = "final"
    /\ printed' = IF current # Nil /\ total # Nil
                  THEN Ptr(Line(Deref(current), Deref(total), 100, TRUE))
                  ELSE printed
    /\ repPc' = "ack"
    /\ UNCHANGED <<sliceSize, outputFile, mainPc, mi, cursors, wg, taskPc, taskHits,
                   taskResp, taskErr, taskLast, file, yielded, repK, repC, repT, current, total,
                   exited>>
    /\ UNCHANGED <<testVars, httpVars>>

(***************************************************************************)
(* The specifications.                                                     *)
(***************************************************************************)
Init == TestInit /\ MainInit

NextMain ==
    \/ MainCreate
    \/ MainStartReporter
    \/ MainWait
    \/ MainSendDone
    \/ MainRecvDone
    \/ MainReturn
    \/ \E i \in Slots : TaskNext(i)
    \/ \E i \in Slots : TaskSearchStore(i)
    \/ \E i \in Slots : TaskWrite(i)
    \/ ReporterTick
    \/ ReporterRead
    \/ ReporterPrint
    \/ ReporterFinal

Spec == Init /\ [][NextMain]_vars

\* The goroutines of a run.  A goroutine that can take a step is scheduled
\* eventually, a backend call returns, and time.Sleep returns.
MainGoroutine ==
    MainCreate \/ MainStartReporter \/ MainWait \/ MainSendDone \/ MainRecvDone \/ MainReturn

TaskGoroutine(i) == TaskNext(i) \/ TaskSearchStore(i) \/ TaskWrite(i)

ReporterGoroutine == ReporterTick \/ ReporterRead \/ ReporterPrint \/ ReporterFinal

Fairness ==
    /\ WF_vars(MainGoroutine)
    /\ WF_vars(ReporterGoroutine)
    /\ \A i \in Slots : WF_vars(TaskGoroutine(i))

SpecFair == Init /\ [][NextMain]_vars /\ Fairness

InitCursor == TestInit /\ MainIdle

NextCursor == TestNew \/ TestNext

SpecCursor == InitCursor /\ [][NextCursor]_vars

\* client_test.go's mocked HTTP client under the client, the client under one
\* unsliced cursor: the first two Next() calls, over every HTTP response
TestNewUnsliced ==
    /\ TestNewSlicedScrollCursor(0, 1, "", EmptyObject)
    /\ UNCHANGED <<httpVars, mainVars>>

TestNextOverHTTP ==
    /\ nCalls < 2
    /\ \E h \in HttpResponses :
         LET c == Deref(ssc)
             r == IF c.Total = Nil
                  THEN Search(searchQuery(c), h)
                  ELSE Scroll(c.lastScrollID, h)
             called == Next(c, r).calls # <<>>
         IN  /\ TestNextReturning(r)
             /\ lastHttp' = IF called THEN Ptr(h) ELSE Nil
             /\ lastRet' = IF called THEN Ptr(r) ELSE Nil
    /\ UNCHANGED <<esClient, postURL>>
    /\ UNCHANGED mainVars

\* TestNext's backend: every response is complete, carries one document and
\* reports a hits.total of at least 1
OneDocReturns ==
    { r \in ClientReturns :
        /\ r.err = NoErr
        /\ Len(Deref(r.resp).Hits.Hits) = 1
        /\ Deref(r.resp).Hits.Total >= 1 }

TestNextOneDoc ==
    /\ \E r \in OneDocReturns : TestNextReturning(r)
    /\ UNCHANGED <<httpVars, mainVars>>

NextOneDoc == TestNew \/ TestNextOneDoc

SpecOneDoc == InitCursor /\ [][NextOneDoc]_vars

\* TestSearchRequestURL: NewClient, then Search and Scroll requests whose URL
\* the mocked HTTP client records
TestNewClient ==
    /\ esClient = Nil
    /\ \E host \in Hosts, index \in Indexes, docType \in DocTypes,
          routing \in Routings, searchContextTTL \in SearchContextTTLs :
         esClient' = NewClient(host, index, docType, routing, searchContextTTL)
    /\ UNCHANGED <<lastHttp, lastRet, postURL>>
    /\ UNCHANGED <<testVars, mainVars>>

TestSearchURL ==
    /\ esClient # Nil
    /\ postURL' = Ptr(searchURL(Deref(esClient)))
    /\ UNCHANGED <<lastHttp, lastRet, esClient>>
    /\ UNCHANGED <<testVars, mainVars>>

TestScrollURL ==
    /\ esClient # Nil
    /\ postURL' = Ptr(scrollURL(Deref(esClient)))
    /\ UNCHANGED <<lastHttp, lastRet, esClient>>
    /\ UNCHANGED <<testVars, mainVars>>

NextURL == TestNewClient \/ TestSearchURL \/ TestScrollURL

SpecURL == InitCursor /\ [][NextURL]_vars

(***************************************************************************)
(* The earlier main.go kept in src/unnamed/part_000.  Its main and its     *)
(* writeHitsToFile are those of main.go; its processCursor tests len(hits) *)
(* in the for statement, before the error, and its printProgress keeps     *)
(* total and current as ints, receives on done inside its loop over the    *)
(* cursors and sends on done itself once total == current.  The ints are   *)
(* held in total and current as Ptr(n); repPc is "select" at the top of    *)
(* the timer loop, "read" inside the loop over the cursors at cursor repK, *)
(* "ack" at done <- and "stopped" after the break.                         *)
(***************************************************************************)
MainInitPart000 ==
    /\ sliceSize \in 0..MaxSlices
    /\ outputFile \in BOOLEAN
    /\ mainPc = "loop"
    /\ mi = 0
    /\ cursors = [i \in Slots |-> Nil]
    /\ wg = 0
    /\ taskPc = [i \in Slots |-> "none"]
    /\ taskHits = [i \in Slots |-> <<>>]
    /\ taskResp = [i \in Slots |-> Nil]
    /\ taskErr = [i \in Slots |-> NoErr]
    /\ taskLast = [i \in Slots |-> "none"]
    /\ file = [i \in Slots |-> <<>>]
    /\ yielded = [i \in Slots |-> <<>>]
    /\ repPc = "none"
    /\ repK = 0
    /\ repC = 0
    /\ repT = 0
    /\ current = Ptr(0)
    /\ total = Ptr(0)
    /\ printed = Nil
    /\ exited = Nil

\* part_000 processCursor: for hits, err := ssc.Next(); len(hits) > 0; {...}
\* leaves the loop and returns nil when the batch is empty, error or not
TaskAfterNextPart000(i, hits, err) ==
    IF Len(hits) = 0
    THEN /\ TaskReturn(i, NoErr)
         /\ taskLast' = [taskLast EXCEPT ![i] = IF err # NoErr THEN "error" ELSE "empty"]
         /\ UNCHANGED <<taskHits, yielded>>
    ELSE IF err # NoErr
    THEN /\ TaskReturn(i, err)
         /\ taskLast' = [taskLast EXCEPT ![i] = "error"]
         /\ UNCHANGED <<taskHits, yielded>>
    ELSE /\ taskLast' = [taskLast EXCEPT ![i] = "batch"]
         /\ yielded' = [yielded EXCEPT ![i] = @ \o IDsOf(hits)]
         /\ taskHits' = [taskHits EXCEPT ![i] = IF outputFile THEN hits ELSE <<>>]
         /\ taskPc' = [taskPc EXCEPT ![i] = IF outputFile THEN "write" ELSE "next"]
         /\ UNCHANGED <<taskErr, wg, mainPc, exited>>

TaskNextPart000(i) ==
    /\ Running
    /\ taskPc[i] = "next"
    /\ \E r \in MainReturns :
         LET c == Deref(cursors[i])
         IN  IF c.Total = Nil /\ r.err = NoErr
             THEN /\ cursors' = [cursors EXCEPT
                                   ![i] = Ptr(searchStoreTotal(c, Deref(r.resp)))]
                  /\ taskResp' = [taskResp EXCEPT ![i] = r.resp]
                  /\ taskPc' = [taskPc EXCEPT ![i] = "searchStore"]
                  /\ UNCHANGED <<taskHits, taskErr, taskLast, yielded, wg, mainPc, exited>>
             ELSE LET res == Next(c, r)
                  IN  /\ WithinModel(res.cursor)
                      /\ cursors' = [cursors EXCEPT ![i] = Ptr(res.cursor)]
                      /\ TaskAfterNextPart000(i, res.hits, res.err)
                      /\ UNCHANGED taskResp
    /\ UNCHANGED <<sliceSize, outputFile, mi, file,
                   repPc, repK, repC, repT, current, total, printed>>
    /\ UNCHANGED <<testVars, httpVars>>

TaskSearchStorePart000(i) ==
    /\ Running
    /\ taskPc[i] = "searchStore"
    /\ LET resp == Deref(taskResp[i])
       IN  /\ cursors' = [cursors EXCEPT
                            ![i] = Ptr(searchStoreRest(Deref(cursors[i]), resp))]
           /\ TaskAfterNextPart000(i, resp.Hits.Hits, NoErr)
    /\ taskResp' = [taskResp EXCEPT ![i] = Nil]
    /\ UNCHANGED <<sliceSize, outputFile, mi, file,
                   repPc, repK, repC, repT, current, total, printed>>
    /\ UNCHANGED <<testVars, httpVars>>

\* time.Sleep returns; currentTemp := 0; totalTemp := 0; the range begins
TickPart000 ==
    /\ Running
    /\ repPc = "select"
    /\ repPc' = "read"
    /\ repK' = 0
    /\ repC' = 0
    /\ repT' = 0
    /\ UNCHANGED <<sliceSize, outputFile, mainPc, mi, cursors, wg, taskPc, taskHits,
                   taskResp, taskErr, taskLast, file, yielded, current, total, printed, exited>>
    /\ UNCHANGED <<testVars, httpVars>>

\* main's done <- struct{}{} meets case <-done of the select at cursor repK:
\* current = total, and the range goes on with the next cursor
MainSendDonePart000 ==
    /\ Running
    /\ mainPc = "send"
    /\ repPc = "read"
    /\ repK < sliceSize
    /\ mainPc' = "recv"
    /\ current' = total
    /\ repK' = repK + 1
    /\ UNCHANGED <<sliceSize, outputFile, mi, cursors, wg, taskPc, taskHits, taskResp,
                   taskErr, taskLast, file, yielded, repPc, repC, repT, total, printed,
                   exited>>
    /\ UNCHANGED <<testVars, httpVars>>

\* the default case of the select at cursor repK, taken when main is not
\* sending: a cursor with a Total is added (the dereference of a nil
\* NumDocsRetrieved is a panic that ends the process with status 2), a
\* cursor without one sends printProgress back to the top of the timer loop
ReadPart000 ==
    /\ Running
    /\ repPc = "read"
    /\ repK < sliceSize
    /\ mainPc # "send"
    /\ LET c == Deref(cursors[repK])
       IN  IF c.Total # Nil
           THEN IF c.NumDocsRetrieved # Nil
                THEN /\ repT' = repT + Deref(c.Total)
                     /\ repC' = repC + Deref(c.NumDocsRetrieved)
                     /\ repK' = repK + 1
                     /\ UNCHANGED <<repPc, mainPc, exited>>
                ELSE /\ exited' = Ptr(2)
                     /\ mainPc' = "exited"
                     /\ UNCHANGED <<repPc, repK, repC, repT>>
           ELSE /\ repPc' = "select"
                /\ UNCHANGED <<repK, repC, repT, mainPc, exited>>
    /\ UNCHANGED <<sliceSize, outputFile, mi, cursors, wg, taskPc, taskHits,
                   taskResp, taskErr, taskLast, file, yielded, current, total, printed>>
    /\ UNCHANGED <<testVars, httpVars>>

\* fmt's %.0f of (float64(current) / float64(total)) * 100.0
PercentPart000(c, t) ==
    IF t > 0 THEN Percent(c, t) ELSE IF c > 0 THEN "+Inf" ELSE "NaN"

\* after the range: total and current are raised to the sums, the line is
\* printed, and with total == current printProgress goes to done <-
PrintPart000 ==
    /\ Running
    /\ repPc = "read"
    /\ repK = sliceSize
    /\ LET t == IF repT > Deref(total) THEN repT ELSE Deref(total)
           c == IF repC > Deref(current) THEN repC ELSE Deref(current)
       IN  /\ total' = Ptr(t)
           /\ current' = Ptr(c)
           /\ printed' = Ptr(Line(c, t, PercentPart000(c, t), FALSE))
           /\ repPc' = IF t = c THEN "ack" ELSE "select"
    /\ UNCHANGED <<sliceSize, outputFile, mainPc, mi, cursors, wg, taskPc, taskHits,
                   taskResp, taskErr, taskLast, file, yielded, repK, repC, repT, exited>>
    /\ UNCHANGED <<testVars, httpVars>>

InitPart000 == TestInit /\ MainInitPart000

NextPart000 ==
    \/ MainCreate
    \/ MainStartReporter
    \/ MainWait
    \/ MainSendDonePart000
    \/ MainRecvDone
    \/ MainReturn
    \/ \E i \in Slots : TaskNextPart000(i)
    \/ \E i \in Slots : TaskSearchStorePart000(i)
    \/ \E i \in Slots : TaskWrite(i)
    \/ TickPart000
    \/ ReadPart000
    \/ PrintPart000

SpecPart000 == InitPart000 /\ [][NextPart000]_vars

NextClient == TestNewUnsliced \/ TestNextOverHTTP

SpecClient == InitCursor /\ [][NextClient]_vars

(***************************************************************************)
(* Properties.                                                             *)
(***************************************************************************)
Known(c) == c.Total # Nil /\ c.NumDocsRetrieved # Nil

Exhausted(c) == Known(c) /\ Deref(c.NumDocsRetrieved) = Deref(c.Total)

\* C1 (Spec): the step in which cursor i's Next() fails ends goroutine i with
\* that error recorded and touches nothing of any other goroutine, of main or
\* of the reporter, and the process goes on; and a goroutine ends only on its
\* own empty batch or its own error.
C1_FailureStaysInItsPartition ==
    [][ \A i \in Slots :
          /\ (taskLast'[i] = "error" /\ taskLast[i] # "error") =>
                /\ taskErr'[i] # NoErr
                /\ taskPc'[i] = "ended"
                /\ \A j \in Slots \ {i} :
                      /\ taskPc'[j] = taskPc[j]
                      /\ taskErr'[j] = taskErr[j]
                      /\ taskLast'[j] = taskLast[j]
                      /\ cursors'[j] = cursors[j]
                      /\ taskHits'[j] = taskHits[j]
                      /\ file'[j] = file[j]
                /\ exited' = Nil
                /\ mainPc' = mainPc
                /\ repPc' = repPc
          /\ (taskPc[i] # "ended" /\ taskPc'[i] = "ended") =>
                \/ taskLast'[i] = "empty" /\ taskErr'[i] = NoErr
                \/ taskLast'[i] = "error" /\ taskErr'[i] # NoErr
                \/ taskLast'[i] = "batch" /\ taskErr'[i] = ErrWrite
      ]_vars

\* one cursor's first search failed, the other was retrieved and written in full
C1_Witness ==
    /\ sliceSize = 2
    /\ taskLast[0] = "error"
    /\ cursors[0] # Nil /\ Deref(cursors[0]).Total = Nil
    /\ taskPc[1] = "ended" /\ taskErr[1] = NoErr
    /\ Exhausted(Deref(cursors[1]))
    /\ Len(file[1]) = 2

\* C2 (SpecCursor): NumDocsRetrieved is the sum of the document counts of the
\* successful responses, and Total is the first successful response's
\* hits.total: both nil before it, and Total the same ever after.
C2_RetrievedIsSumTotalSetOnce ==
    ssc # Nil =>
        LET c == Deref(ssc)
        IN  /\ okCount = 0 => c.Total = Nil /\ c.NumDocsRetrieved = Nil
            /\ okCount > 0 => c.NumDocsRetrieved = Ptr(sumDocs) /\ c.Total = firstTotal

C2_Witness ==
    /\ ssc # Nil
    /\ okCount = 2
    /\ nSearch = 1
    /\ nScroll = 1
    /\ sumDocs = 2
    /\ firstTotal = Ptr(2)
    /\ Exhausted(Deref(ssc))

\* C3 as claimed (SpecCursor): after any Next() against any response,
\* NumDocsRetrieved has not decreased and, once both are known,
\* NumDocsRetrieved <= Total.
C3_Original_AnyBackend ==
    [][ (ssc # Nil /\ ssc' # Nil) =>
          /\ Deref(ssc).NumDocsRetrieved # Nil =>
                /\ Deref(ssc').NumDocsRetrieved # Nil
                /\ Deref(Deref(ssc').NumDocsRetrieved) >= Deref(Deref(ssc).NumDocsRetrieved)
          /\ Known(Deref(ssc')) =>
                Deref(Deref(ssc').NumDocsRetrieved) <= Deref(Deref(ssc').Total)
      ]_vars

\* the documents of the successful responses so far do not exceed the
\* hits.total the first of them reported
BackendWithinTotal == firstTotal # Nil => sumDocs <= Deref(firstTotal)

\* C3 as amended (SpecCursor): NumDocsRetrieved never decreases, and
\* NumDocsRetrieved <= Total as long as the backend has returned no more
\* documents than the total it reported.
C3_MonotoneAndBoundedByHonestTotal ==
    [][ (ssc # Nil /\ ssc' # Nil) =>
          /\ Deref(ssc).NumDocsRetrieved # Nil =>
                /\ Deref(ssc').NumDocsRetrieved # Nil
                /\ Deref(Deref(ssc').NumDocsRetrieved) >= Deref(Deref(ssc).NumDocsRetrieved)
          /\ (Known(Deref(ssc')) /\ BackendWithinTotal') =>
                Deref(Deref(ssc').NumDocsRetrieved) <= Deref(Deref(ssc').Total)
      ]_vars

C3_Witness ==
    /\ ssc # Nil
    /\ Known(Deref(ssc))
    /\ BackendWithinTotal
    /\ nScroll >= 1
    /\ okCount >= 2
    /\ Deref(Deref(ssc).NumDocsRetrieved) = 2
    /\ Deref(Deref(ssc).Total) = 2

\* C4 (SpecCursor): a Next() on an exhausted cursor returns no hits and no
\* error, sends neither a search nor a scroll, and leaves the cursor (Total,
\* NumDocsRetrieved, lastScrollID) as it was.
C4_ExhaustedNextIsNoOp ==
    [][ (ssc # Nil /\ Exhausted(Deref(ssc)) /\ nCalls' = nCalls + 1) =>
          /\ last'.hits = <<>>
          /\ last'.err = NoErr
          /\ last'.op = "none"
          /\ nSearch' = nSearch
          /\ nScroll' = nScroll
          /\ mock' = mock
          /\ ssc' = ssc
      ]_vars

\* two Next() calls were made after the search that exhausted the cursor
C4_Witness ==
    /\ ssc # Nil
    /\ Exhausted(Deref(ssc))
    /\ Deref(Deref(ssc).Total) = 1
    /\ nCalls = 3
    /\ nSearch = 1
    /\ nScroll = 0
    /\ last.op = "none"

\* C5 (SpecCursor): a Next() whose search or scroll failed returns the
\* client's error and no hits, and leaves the cursor as it was.
C5_FailedCallLeavesCursor ==
    [][ (nCalls' = nCalls + 1 /\ backendErr' # NoErr) =>
          /\ last'.err = backendErr'
          /\ last'.hits = <<>>
          /\ ssc' = ssc
      ]_vars

\* a scroll was rejected for incomplete shards after a successful search
C5_Witness ==
    /\ ssc # Nil
    /\ last.op = "scroll"
    /\ last.err = ErrShards
    /\ backendErr = ErrShards
    /\ okCount = 1
    /\ Deref(ssc).Total = Ptr(2)
    /\ Deref(ssc).NumDocsRetrieved = Ptr(1)

\* C6 (SpecCursor): NewSlicedScrollCursor fails, returning no cursor, exactly
\* when max >= 2 and id >= max; otherwise it returns a cursor whose Total and
\* NumDocsRetrieved are nil.
C6_ConstructorFailsIffIdNotBelowMax ==
    ctorArgs # Nil =>
        LET a == Deref(ctorArgs)
        IN  /\ (ctorErr # NoErr) <=> (a.max >= 2 /\ a.id >= a.max)
            /\ ctorErr # NoErr => ssc = Nil
            /\ ctorErr = NoErr =>
                 /\ ssc # Nil
                 /\ nCalls = 0 =>
                      /\ Deref(ssc).Total = Nil
                      /\ Deref(ssc).NumDocsRetrieved = Nil

C6_Witness ==
    /\ ctorArgs # Nil
    /\ Deref(ctorArgs).id = 2
    /\ Deref(ctorArgs).max = 2
    /\ ctorErr = ErrMax
    /\ ssc = Nil

\* C7 (SpecCursor): with max >= 2 the search body is the base query plus
\* "slice": {id, max}, with "field" in the slice exactly when the slice field
\* is not empty; every other key of the base query is carried over.
C7_SlicedSearchBody ==
    (ctorArgs # Nil /\ mock.SearchBody # Nil /\ Deref(ctorArgs).max >= 2) =>
        LET a == Deref(ctorArgs)
            sent == Deref(mock.SearchBody)
        IN  /\ DOMAIN sent = DOMAIN a.query \cup {"slice"}
            /\ \A k \in DOMAIN a.query \ {"slice"} : sent[k] = a.query[k]
            /\ DOMAIN sent["slice"] =
                 IF a.field # "" THEN {"id", "max", "field"} ELSE {"id", "max"}
            /\ sent["slice"]["id"] = a.id
            /\ sent["slice"]["max"] = a.max
            /\ a.field # "" => sent["slice"]["field"] = a.field

C7_Witness ==
    /\ ctorArgs # Nil
    /\ Deref(ctorArgs).id = 1
    /\ Deref(ctorArgs).max = 2
    /\ Deref(ctorArgs).field = "my_field"
    /\ DOMAIN Deref(ctorArgs).query = {"query", "size"}
    /\ nCalls = 1
    /\ mock.SearchBody # Nil
    /\ Deref(mock.SearchBody)["slice"]["field"] = "my_field"

\* C8 (SpecCursor): with max <= 1 the search body is the base query: the same
\* keys with the same values, and no slice clause, whatever id and field are.
C8_UnslicedSearchBody ==
    (ctorArgs # Nil /\ mock.SearchBody # Nil /\ Deref(ctorArgs).max <= 1) =>
        LET a == Deref(ctorArgs)
            sent == Deref(mock.SearchBody)
        IN  /\ DOMAIN sent = DOMAIN a.query
            /\ \A k \in DOMAIN a.query : sent[k] = a.query[k]
            /\ "slice" \notin DOMAIN sent

C8_Witness ==
    /\ ctorArgs # Nil
    /\ Deref(ctorArgs).id = 1
    /\ Deref(ctorArgs).max = 0
    /\ Deref(ctorArgs).field = "my_field"
    /\ DOMAIN Deref(ctorArgs).query = {"query", "size"}
    /\ nCalls = 1
    /\ mock.SearchBody # Nil

BadShards(sh) == sh.Failed # 0 \/ sh.Successful # sh.Total

\* C9 (SpecClient): for a 200 response with a decodable body the client
\* returns an error and no response exactly when failed # 0 or successful #
\* total; otherwise it returns the body as it is, and its hits are what
\* Next() returns; the hits of a rejected body are not returned by Next().
C9_IncompleteShardsRejected ==
    (lastHttp # Nil /\ ~Deref(lastHttp).postErr
       /\ Deref(lastHttp).StatusCode = 200 /\ Deref(lastHttp).decodable) =>
        LET h == Deref(lastHttp)
            ret == Deref(lastRet)
        IN  /\ (ret.err # NoErr) <=> BadShards(h.body.Shards)
            /\ ~BadShards(h.body.Shards) =>
                 /\ ret.resp = Ptr(h.body)
                 /\ last.err = NoErr
                 /\ last.hits = h.body.Hits.Hits
            /\ BadShards(h.body.Shards) =>
                 /\ ret.resp = Nil
                 /\ last.err = ret.err
                 /\ last.hits = <<>>

\* total 2, successful 1, failed 0 with one document in the body: rejected
C9_Witness ==
    /\ lastHttp # Nil
    /\ Deref(lastHttp).decodable
    /\ Deref(lastHttp).body.Shards = [Total |-> 2, Successful |-> 1, Failed |-> 0]
    /\ Len(Deref(lastHttp).body.Hits.Hits) = 1
    /\ last.err = ErrShards
    /\ last.hits = <<>>
    /\ Deref(ssc).Total = Nil

\* C10 (Spec): main is past wg.Wait() -- sending on done, waiting for the
\* reporter's answer, or returning -- only when every goroutine it started
\* has ended; none is left running when the process ends.
C10_MainWaitsForEveryTask ==
    (mainPc \in {"send", "recv", "println", "exited"} \/ repPc \in {"final", "ack", "stopped"}) =>
        /\ mi = sliceSize
        /\ \A i \in Slots : i < sliceSize => taskPc[i] = "ended"
        /\ wg = 0

C10_Witness ==
    /\ mainPc = "exited"
    /\ exited = Ptr(0)
    /\ repPc = "stopped"
    /\ sliceSize = 2
    /\ taskErr[0] = NoErr
    /\ taskErr[1] # NoErr

(***************************************************************************)
(* The progress reporter.                                                  *)
(***************************************************************************)
RECURSIVE SumTotal(_), SumRetrieved(_)
\* the sum of Total over cursors 0..n-1, all of them known
SumTotal(n) ==
    IF n = 0 THEN 0
    ELSE SumTotal(n - 1) + Deref(Deref(cursors[n - 1]).Total)

\* the sum of NumDocsRetrieved over cursors 0..n-1, all of them known
SumRetrieved(n) ==
    IF n = 0 THEN 0
    ELSE SumRetrieved(n - 1) + Deref(Deref(cursors[n - 1]).NumDocsRetrieved)

AllKnown(n) == \A k \in 0..(n - 1) : Known(Deref(cursors[k]))

\* a step of printProgress inside processingProgress
ReporterReads == repPc = "read" /\ (repPc' # repPc \/ repK' # repK)

\* C11 (Spec): a progress line has been emitted, or an aggregate is held by
\* printProgress, only when every cursor has both counters; a tick that
\* finds a cursor with a nil Total or a nil NumDocsRetrieved returns to the
\* select having emitted nothing and holding no aggregate.
C11_NoLineUntilEveryCursorKnown ==
    [][ /\ (printed' # Nil \/ current' # Nil \/ total' # Nil) => AllKnown(sliceSize)'
        /\ (ReporterReads /\ repK < sliceSize /\ ~Known(Deref(cursors[repK])))
              => /\ printed' = printed
                 /\ current' = Nil
                 /\ total' = Nil
                 /\ repPc' = "select" ]_vars

\* a tick read cursor 0, found cursor 1 between its two stores and gave up;
\* nothing has been emitted
C11_Witness ==
    /\ sliceSize = 2
    /\ repPc = "select"
    /\ repK = 1
    /\ repC > 0
    /\ Deref(cursors[1]).Total # Nil
    /\ Deref(cursors[1]).NumDocsRetrieved = Nil
    /\ printed = Nil
    /\ current = Nil

\* C12 (Spec): a tick adds each cursor's Total and NumDocsRetrieved, as they
\* are when it reads the cursor, to sums that start at 0, and the line it
\* emits shows those sums: the total is the sum of all cursors' Total, the
\* current count is the sum of the values read (never more than the sum of
\* NumDocsRetrieved at the time of the line), and the percentage is
\* 100 * current / total to the nearest integer, 0 when the total is 0.
C12_AggregateIsSumOfCounters ==
    [][ /\ (repPc = "select" /\ repPc' = "read") => (repC' = 0 /\ repT' = 0 /\ repK' = 0)
        /\ (ReporterReads /\ repK < sliceSize /\ Known(Deref(cursors[repK])))
              => /\ repT' = repT + Deref(Deref(cursors[repK]).Total)
                 /\ repC' = repC + Deref(Deref(cursors[repK]).NumDocsRetrieved)
                 /\ repK' = repK + 1
        /\ (repPc' = "read") => /\ AllKnown(repK)'
                                /\ repT' = SumTotal(repK)'
                                /\ repC' <= SumRetrieved(repK)'
        /\ (ReporterReads /\ repK = sliceSize)
              => /\ printed' # Nil
                 /\ Deref(printed') = Line(repC, repT, Deref(printed').percent, FALSE)
                 /\ current' = Ptr(repC)
                 /\ total' = Ptr(repT)
                 /\ repT = SumTotal(sliceSize)
                 /\ repC <= SumRetrieved(sliceSize)
                 /\ LET pct == Deref(printed').percent
                    IN  IF repT = 0 THEN pct = 0
                        ELSE /\ 2 * (pct * repT - 100 * repC) <= repT
                             /\ 2 * (100 * repC - pct * repT) <= repT ]_vars

\* two cursors with totals 2 and 2 and 1 and 1 documents retrieved: 2/4, 50%
C12_Witness ==
    /\ sliceSize = 2
    /\ repPc = "select"
    /\ printed = Ptr(Line(2, 4, 50, FALSE))
    /\ Deref(Deref(cursors[0]).Total) = 2
    /\ Deref(Deref(cursors[1]).Total) = 2
    /\ Deref(Deref(cursors[0]).NumDocsRetrieved) = 1
    /\ Deref(Deref(cursors[1]).NumDocsRetrieved) = 1

\* C13 (Spec): after case <-done the reporter emits the final 100% line, once,
\* exactly when a progress line was emitted before (an aggregate was
\* computed), and otherwise emits nothing; either way it goes on to send on
\* done while main is receiving, and emits nothing afterwards.
C13_FinalLineIffAggregateComputed ==
    [][ /\ (repPc = "final" /\ repPc' # repPc)
              => /\ repPc' = "ack"
                 /\ IF printed # Nil
                    THEN /\ ~Deref(printed).final
                         /\ current # Nil /\ total # Nil
                         /\ printed' = Ptr(Line(Deref(current), Deref(total), 100, TRUE))
                    ELSE printed' = Nil
        /\ (printed' # printed /\ printed' # Nil /\ Deref(printed').final)
              => repPc = "final"
        /\ (repPc \in {"ack", "stopped"}) => printed' = printed
        /\ (repPc' = "ack") => mainPc' = "recv"
        /\ (repPc = "ack" /\ repPc' # repPc) => (repPc' = "stopped" /\ mainPc' = "println")
        /\ (repPc = "stopped") => repPc' = "stopped" ]_vars

\* the run ended after progress lines and the final line
C13_Witness ==
    /\ repPc = "stopped"
    /\ sliceSize = 2
    /\ printed # Nil
    /\ Deref(printed).final
    /\ Deref(printed).percent = 100
    /\ Deref(printed).total > 0

(***************************************************************************)
(* The output file.                                                        *)
(***************************************************************************)
\* C14 (Spec): with an output file, a goroutine is in Next() only when every
\* document of every batch its cursor returned so far is in the file and
\* none is waiting to be written, and a further batch is returned only from
\* such a state; another goroutine may meanwhile be in the middle of writing
\* a batch of its own.
C14_BatchWrittenBeforeNextRequested ==
    [][ \A i \in Slots :
          /\ (outputFile /\ taskPc[i] \in {"next", "searchStore"})
                => (taskHits[i] = <<>> /\ file[i] = yielded[i])
          /\ (outputFile /\ yielded'[i] # yielded[i])
                => /\ taskHits[i] = <<>>
                   /\ file[i] = yielded[i]
                   /\ taskHits'[i] # <<>>
                   /\ yielded'[i] = yielded[i] \o IDsOf(taskHits'[i])
                   /\ taskPc'[i] = "write" ]_vars

\* cursor 0 has had two batches written and is asking for a third while
\* goroutine 1 has written one of the two documents of its batch
C14_Witness ==
    /\ outputFile
    /\ sliceSize = 2
    /\ taskPc[0] = "next"
    /\ yielded[0] = <<1, 1>>
    /\ file[0] = <<1, 1>>
    /\ taskPc[1] = "write"
    /\ file[1] = <<1>>
    /\ Len(taskHits[1]) = 1
    /\ yielded[1] = <<1, 2>>

\* C15 (Spec): with an output file, a goroutine that ended without a write
\* error has written exactly the documents of the batches its cursor
\* returned, once each and in the order returned, as many as the cursor
\* counted; a cursor whose first search failed has written none; nothing is
\* written without an output file or for a slice that does not exist.
C15_FileHoldsExactlyTheYieldedDocuments ==
    \A i \in Slots :
      /\ (outputFile /\ taskPc[i] = "ended" /\ taskErr[i] # ErrWrite)
            => /\ file[i] = yielded[i]
               /\ taskHits[i] = <<>>
               /\ LET c == Deref(cursors[i])
                  IN  /\ Known(c) => Len(file[i]) = Deref(c.NumDocsRetrieved)
                      /\ c.Total = Nil => (file[i] = <<>> /\ taskErr[i] # NoErr)
      /\ ~outputFile => file[i] = <<>>
      /\ i >= sliceSize => (file[i] = <<>> /\ yielded[i] = <<>>)

\* the run ended: cursor 0's first search failed and it wrote nothing, cursor
\* 1 returned two batches and both are in the file
C15_Witness ==
    /\ outputFile
    /\ sliceSize = 2
    /\ exited = Ptr(0)
    /\ taskErr[0] = ErrPost
    /\ Deref(cursors[0]).Total = Nil
    /\ file[0] = <<>>
    /\ taskErr[1] = NoErr
    /\ yielded[1] = <<1, 1, 2>>
    /\ file[1] = <<1, 1, 2>>

(***************************************************************************)
(* The orchestrator and what the goroutines share.                         *)
(***************************************************************************)
\* the fields of a cursor that Next() assigns
Counters(c) == <<c.Total, c.NumDocsRetrieved, c.lastScrollID>>

ReporterSteps ==
    \/ repPc' # repPc \/ repK' # repK \/ repC' # repC \/ repT' # repT
    \/ current' # current \/ total' # total \/ printed' # printed

\* C16 (Spec): a cursor changes only in a step of its own goroutine's Next()
\* (after main stored it, before starting that goroutine): such a step
\* changes no other cursor and nothing of the reporter, and changes only
\* Total, NumDocsRetrieved and lastScrollID; every step of printProgress and
\* processingProgress leaves all cursors as they are.
C16_CursorWrittenOnlyByItsOwnTask ==
    [][ /\ \A i \in Slots :
             cursors'[i] # cursors[i] =>
               \/ /\ cursors[i] = Nil
                  /\ mainPc = "loop" /\ mi = i /\ mi' = i + 1
                  /\ taskPc[i] = "none"
                  /\ Counters(Deref(cursors'[i])) = <<Nil, Nil, "">>
               \/ /\ cursors[i] # Nil
                  /\ taskPc[i] \in {"next", "searchStore"}
                  /\ ~ReporterSteps
                  /\ mainPc' = mainPc /\ mi' = mi
                  /\ \A j \in Slots \ {i} :
                        /\ cursors'[j] = cursors[j]
                        /\ taskPc'[j] = taskPc[j]
                        /\ yielded'[j] = yielded[j]
                  /\ [Deref(cursors'[i]) EXCEPT
                        !.Total = Deref(cursors[i]).Total,
                        !.NumDocsRetrieved = Deref(cursors[i]).NumDocsRetrieved,
                        !.lastScrollID = Deref(cursors[i]).lastScrollID]
                     = Deref(cursors[i])
        /\ ReporterSteps => cursors' = cursors ]_vars

\* processingProgress has added cursor 0's count of 1 to its sum, and
\* goroutine 0 has since scrolled to 2
C16_Witness ==
    /\ sliceSize = 2
    /\ repPc = "read"
    /\ cursors[1] # Nil
    /\ repK = 1
    /\ repC = 1
    /\ Deref(Deref(cursors[0]).NumDocsRetrieved) = 2
    /\ Known(Deref(cursors[1]))

\* C18 as claimed (Spec): when the process has ended and a goroutine ended
\* with an error, the exit status is not 0.
C18_Original_ExitSignalsFailure ==
    (exited # Nil /\ \E i \in Slots : taskErr[i] # NoErr) => exited # Ptr(0)

\* C19 as claimed (Spec): with -sliceSize 0, as with 1, main's loop leaves one
\* cursor, unsliced, with its goroutine started, and the process ends only
\* after that goroutine ended.
C19_Original_ZeroSlicesRunsOneCursor ==
    (sliceSize \in {0, 1} /\ mainPc # "loop")
       => /\ cursors[0] # Nil
          /\ taskPc[0] # "none"
          /\ "slice" \notin DOMAIN searchQuery(Deref(cursors[0]))
          /\ exited # Nil => taskPc[0] = "ended"

\* C20 (Spec): every cursor's query is the map main parsed from -query, with
\* no slice key, in every state: before its goroutine's first Next(), between
\* the Next() calls of all goroutines and after them, whether the searches
\* succeeded or failed; the slice clause of a sliced cursor is in the body it
\* derives and not in the map.
C20_BaseQueryNeverMutated ==
    \A i \in Slots :
       cursors[i] # Nil =>
          /\ Deref(cursors[i]).query = FlagQuery
          /\ "slice" \notin DOMAIN Deref(cursors[i]).query
          /\ sliceSize >= 2 => "slice" \in DOMAIN searchQuery(Deref(cursors[i]))

\* two sliced cursors after their searches, one failed and one answered
C20_Witness ==
    /\ sliceSize = 2
    /\ cursors[0] # Nil
    /\ cursors[1] # Nil
    /\ taskErr[0] = ErrShards
    /\ Deref(cursors[0]).Total = Nil
    /\ Known(Deref(cursors[1]))
    /\ Deref(Deref(cursors[1]).NumDocsRetrieved) = 2
    /\ taskPc[1] = "ended"
    /\ Deref(cursors[0]).query = Deref(cursors[1]).query

(***************************************************************************)
(* The cursor's protocol.                                                  *)
(***************************************************************************)
Min(a, b) == IF a <= b THEN a ELSE b

\* C21 (SpecOneDoc): against a backend whose responses carry one document
\* each and whose first response reports hits.total = N >= 1, after k calls
\* of Next() the cursor has made one search and Min(k, N) - 1 scrolls and
\* holds NumDocsRetrieved = Min(k, N) and Total = N; each of the first N
\* calls returned one document (the first from the search, the others from
\* scrolls) and every later call returns no hits, no error and makes no
\* request.
C21_OneDocumentPerResponse ==
    (ssc # Nil /\ nCalls >= 1) =>
        /\ firstTotal # Nil
        /\ LET N == Deref(firstTotal)
               k == Min(nCalls, N)
               c == Deref(ssc)
           IN  /\ N >= 1
               /\ c.Total = Ptr(N)
               /\ c.NumDocsRetrieved = Ptr(k)
               /\ nSearch = 1
               /\ nScroll = k - 1
               /\ okCount = k
               /\ last.err = NoErr
               /\ IF nCalls <= N
                  THEN /\ Len(last.hits) = 1
                       /\ last.op = IF nCalls = 1 THEN "search" ELSE "scroll"
                  ELSE /\ last.hits = <<>>
                       /\ last.op = "none"

\* N = 2: a search, a scroll, then the empty batch
C21_Witness ==
    /\ ssc # Nil
    /\ firstTotal = Ptr(2)
    /\ nCalls = 3
    /\ nSearch = 1
    /\ nScroll = 1
    /\ Deref(ssc).NumDocsRetrieved = Ptr(2)
    /\ last.hits = <<>>
    /\ last.op = "none"

(***************************************************************************)
(* The client's request URL.                                               *)
(***************************************************************************)
\* "name=value", the value query-escaped, when the setting is not empty
Param(name, value) ==
    IF value = EmptyString THEN <<>> ELSE <<name, "=">> \o QueryEscape(value)

\* C22 (SpecURL): the URL a Search request is posted to is the host, then
\* "/" and the index if there is one, else "/*" if there is a document type,
\* then "/" and the document type if there is one, then "/_search", then,
\* unless routing and the search context TTL are both empty, "?" followed by
\* routing=... and scroll=... in that order, each present only when its
\* setting is not empty, joined by "&".
C22_SearchURL ==
    (esClient # Nil /\ postURL # Nil /\ Deref(postURL) # scrollURL(Deref(esClient))) =>
        LET c == Deref(esClient)
            routingParam == Param("routing", c.routing)
            scrollParam == Param("scroll", c.searchContextTTL)
        IN  Deref(postURL) =
               c.host
               \o (IF c.index # EmptyString THEN <<"/">> \o c.index
                   ELSE IF c.docType # EmptyString THEN <<"/*">> ELSE <<>>)
               \o (IF c.docType # EmptyString THEN <<"/">> \o c.docType ELSE <<>>)
               \o <<"/_search">>
               \o (IF routingParam = <<>> /\ scrollParam = <<>> THEN <<>> ELSE <<"?">>)
               \o routingParam
               \o (IF routingParam # <<>> /\ scrollParam # <<>> THEN <<"&">> ELSE <<>>)
               \o scrollParam

\* TestSearchRequestURL's last scenario:
\* http://localhost:9200/my_index/my_type/_search?routing=my_routing&scroll=1m
C22_Witness ==
    /\ esClient = Ptr(NewClientStruct(<<"http://localhost:9200">>, <<"my_index">>,
                                      <<"my_type">>, <<"my_routing">>, <<"1m">>))
    /\ postURL = Ptr(<<"http://localhost:9200", "/", "my_index", "/", "my_type",
                       "/_search", "?", "routing", "=", "my_routing", "&",
                       "scroll", "=", "1m">>)

\* C23 (SpecCursor): the cursor's lastScrollID is the _scroll_id of the latest
\* successful response (empty before the first), so it is replaced by every
\* successful search or scroll and by nothing else; every scroll request
\* carries the lastScrollID the cursor held when Next() was called, and is
\* made only after a successful response.
C23_ScrollCarriesLatestToken ==
    [][ /\ ssc' # Nil => Deref(ssc').lastScrollID = okToken'
        /\ (nScroll' = nScroll + 1)
              => /\ okCount > 0
                 /\ mock'.ScrollID = Ptr(okToken)
                 /\ mock'.ScrollID = Ptr(Deref(ssc).lastScrollID)
        /\ (ssc # Nil /\ ssc' # Nil
              /\ Deref(ssc').lastScrollID # Deref(ssc).lastScrollID)
              => /\ nCalls' = nCalls + 1
                 /\ last'.err = NoErr
                 /\ last'.op \in {"search", "scroll"} ]_vars

\* a search answered with scroll_a or scroll_b, a scroll answered with
\* scroll_b, then a scroll that carried scroll_b and was answered with
\* scroll_a
C23_Witness ==
    /\ ssc # Nil
    /\ nSearch = 1
    /\ nScroll = 2
    /\ okCount = 3
    /\ mock.ScrollID = Ptr("scroll_b")
    /\ okToken = "scroll_a"
    /\ Deref(ssc).lastScrollID = "scroll_a"

\* C24 (Spec): once a goroutine's Next() has returned an error or an empty
\* batch the goroutine has ended, in that same step, and from then on its
\* cursor, its record of returned batches and its position never change:
\* it makes no further call of Next().
C24_NoNextAfterErrorOrEmptyBatch ==
    [][ \A i \in Slots :
          /\ (taskLast'[i] \in {"error", "empty"}) => taskPc'[i] = "ended"
          /\ (taskLast[i] \in {"error", "empty"})
                => /\ taskPc[i] = "ended"
                   /\ taskPc'[i] = "ended"
                   /\ taskLast'[i] = taskLast[i]
                   /\ taskErr'[i] = taskErr[i]
                   /\ cursors'[i] = cursors[i]
                   /\ yielded'[i] = yielded[i]
                   /\ taskResp'[i] = taskResp[i] ]_vars

\* goroutine 0 ended on the error of a scroll after one batch, goroutine 1 on
\* an empty batch, and the run went on to its end
C24_Witness ==
    /\ sliceSize = 2
    /\ exited = Ptr(0)
    /\ taskLast[0] = "error"
    /\ taskErr[0] = ErrPost
    /\ yielded[0] = <<1>>
    /\ taskLast[1] = "empty"
    /\ taskErr[1] = NoErr
    /\ yielded[1] = <<1, 2>>

\* C25 as claimed (Spec): in no reachable state is exactly one of a cursor's
\* Total and NumDocsRetrieved nil.
C25_Original_KnownSimultaneously ==
    \A i \in Slots :
       cursors[i] # Nil =>
          (Deref(cursors[i]).Total = Nil <=> Deref(cursors[i]).NumDocsRetrieved = Nil)

\* C25 as amended (Spec): whenever cursor i's goroutine is not inside the
\* search() of its first successful Next(), Total and NumDocsRetrieved are
\* both nil or both set; inside it, between its two stores, Total is set and
\* NumDocsRetrieved is still nil, and the next step of that goroutine sets
\* it; a tick of the reporter that reads the cursor in between emits nothing.
C25_KnownTogetherOutsideSearch ==
    [][ \A i \in Slots :
          cursors[i] # Nil =>
            LET c == Deref(cursors[i])
            IN  /\ taskPc[i] # "searchStore" => (c.Total = Nil <=> c.NumDocsRetrieved = Nil)
                /\ taskPc[i] = "searchStore"
                      => /\ c.Total # Nil /\ c.NumDocsRetrieved = Nil
                         /\ taskPc'[i] # taskPc[i] => Known(Deref(cursors'[i]))
                         /\ (ReporterReads /\ repK = i)
                               => (printed' = printed /\ current' = Nil /\ total' = Nil)
      ]_vars

\* the only cursor is between the two stores of search() and
\* processingProgress is about to read it
C25_Witness ==
    /\ sliceSize = 1
    /\ taskPc[0] = "searchStore"
    /\ Deref(cursors[0]).Total = Ptr(2)
    /\ Deref(cursors[0]).NumDocsRetrieved = Nil
    /\ repPc = "read"
    /\ repK = 0

\* C26 (SpecCursor): a Next() called after a Next() that failed makes the
\* request the failed one made: the same kind, and the mock's record of the
\* search body and of the scroll id is what the failed call left; if it
\* fails too the cursor is again unchanged, so the counters and the scroll id
\* stay at their values from before the first failure.
C26_RetryRepeatsTheRequest ==
    [][ (last.err # NoErr /\ nCalls' = nCalls + 1) =>
          /\ last'.op = last.op
          /\ last.op \in {"search", "scroll"}
          /\ mock' = mock
          /\ last.op = "search" =>
                /\ Deref(ssc).Total = Nil
                /\ mock'.SearchBody = Ptr(searchQuery(Deref(ssc)))
          /\ last.op = "scroll" =>
                /\ Deref(ssc).Total # Nil
                /\ mock'.ScrollID = Ptr(okToken)
          /\ last'.err # NoErr =>
                /\ ssc' = ssc
                /\ last'.hits = <<>>
                /\ okCount' = okCount /\ sumDocs' = sumDocs /\ okToken' = okToken
      ]_vars

\* a search answered with scroll_b, then two scrolls that both failed, both
\* carrying scroll_b
C26_Witness ==
    /\ ssc # Nil
    /\ nCalls = 3
    /\ nSearch = 1
    /\ nScroll = 2
    /\ okCount = 1
    /\ last.op = "scroll"
    /\ last.err = ErrShards
    /\ mock.ScrollID = Ptr("scroll_b")
    /\ Deref(ssc).lastScrollID = "scroll_b"
    /\ Deref(ssc).NumDocsRetrieved = Ptr(1)
    /\ Deref(ssc).Total = Ptr(2)

\* every goroutine started for a slot has ended and main is still in wg.Wait()
LastTaskEnded == mainPc = "wait" /\ wg = 0

\* C27 (SpecFair): a run never stops in a state where the process has not
\* exited, and once the last task goroutine has ended the handshake on done
\* runs through (main sends, printProgress receives and answers, main
\* receives) and the process exits from main, also when no tick ever
\* computed an aggregate.
C27_HandshakeCompletes ==
    /\ [](exited = Nil => ENABLED NextMain)
    /\ LastTaskEnded ~> (mainPc = "recv" /\ repPc \in {"final", "ack"})
    /\ LastTaskEnded ~> (exited = Ptr(0) /\ repPc = "stopped")

\* two tasks ended, no aggregate was ever computed, and the run is over
C27_Witness ==
    /\ sliceSize = 2
    /\ taskPc[0] = "ended"
    /\ taskPc[1] = "ended"
    /\ current = Nil
    /\ printed = Nil
    /\ repPc = "stopped"
    /\ exited = Ptr(0)

\* every goroutine ended on an empty batch with its cursor exhausted
AllTasksSucceeded ==
    /\ sliceSize >= 1
    /\ \A i \in 0..(sliceSize - 1) :
          /\ taskPc[i] = "ended"
          /\ taskLast[i] = "empty"
          /\ taskErr[i] = NoErr
          /\ Exhausted(Deref(cursors[i]))

\* C28 as stated (Spec): when every goroutine ended successfully, the final
\* line shows the sum of the cursors' final NumDocsRetrieved and the sum of
\* their Total, and the two are equal.
C28_Original_FinalLineShowsFinalCounts ==
    (AllTasksSucceeded /\ printed # Nil /\ Deref(printed).final)
        => /\ Deref(printed).current = SumRetrieved(sliceSize)
           /\ Deref(printed).total = SumTotal(sliceSize)
           /\ Deref(printed).current = Deref(printed).total

\* C29 as stated (Spec): a goroutine that ended without an error has an
\* exhausted cursor.
C29_Original_SuccessMeansExhausted ==
    \A i \in Slots :
       (taskPc[i] = "ended" /\ taskErr[i] = NoErr) => Exhausted(Deref(cursors[i]))

\* goroutine i's processCursor returns nil in this step
TaskSucceeds(i) == taskPc[i] # "ended" /\ taskPc'[i] = "ended" /\ taskErr'[i] = NoErr

\* C29 as amended (Spec): processCursor returns nil exactly from an empty
\* batch of Next().  If the cursor was exhausted before the call, nothing of
\* it changes; if it is not exhausted afterwards, the batch was a backend
\* response without documents (a search that stored NumDocsRetrieved = 0
\* under a Total above 0, or a scroll that added nothing), and the goroutine
\* has ended successfully with NumDocsRetrieved # Total.
C29_SuccessMeansEmptyBatch ==
    [][ \A i \in Slots :
          TaskSucceeds(i) =>
             LET c == Deref(cursors[i])
                 d == Deref(cursors'[i])
             IN  /\ taskLast'[i] = "empty"
                 /\ Known(d)
                 /\ yielded'[i] = yielded[i]
                 /\ Len(yielded[i]) = Deref(d.NumDocsRetrieved)
                 /\ (taskPc[i] = "next" /\ Exhausted(c)) => d = c
                 /\ ~Exhausted(d) =>
                       \/ /\ taskPc[i] = "searchStore"
                          /\ Deref(taskResp[i]).Hits.Hits = <<>>
                          /\ Deref(d.NumDocsRetrieved) = 0
                          /\ Deref(d.Total) > 0
                       \/ /\ taskPc[i] = "next"
                          /\ Known(c)
                          /\ ~Exhausted(c)
                          /\ d.NumDocsRetrieved = c.NumDocsRetrieved
                          /\ d.Total = c.Total
      ]_vars

\* a goroutine ended successfully after both documents of its slice
C29_Witness ==
    /\ cursors[0] # Nil
    /\ taskPc[0] = "ended"
    /\ taskErr[0] = NoErr
    /\ taskLast[0] = "empty"
    /\ Exhausted(Deref(cursors[0]))
    /\ Deref(cursors[0]).Total = Ptr(2)
    /\ Len(yielded[0]) = 2

\* goroutine i's processCursor is in its loop
TaskLoops(i) == taskPc[i] \in {"next", "searchStore", "write"}

\* the backend gave cursor i more documents than the total it reported
Overshot(i) ==
    /\ cursors[i] # Nil
    /\ Known(Deref(cursors[i]))
    /\ Deref(Deref(cursors[i]).NumDocsRetrieved) > Deref(Deref(cursors[i]).Total)

\* the Next() calls of goroutine i that returned documents: the documents of
\* a batch are numbered from 1 (HitsOf), so each batch put one 1 in yielded[i]
Batches(i) == Cardinality({k \in 1..Len(yielded[i]) : yielded[i][k] = 1})

\* C30 (SpecFair): whatever the backend returns, the first empty batch or
\* error of Next() ends the goroutine, and an ended goroutine makes no
\* further call.  As long as the backend has returned no more documents than
\* the total it reported, the batches returned are at most Total, and the
\* call on the exhausted cursor is the empty one that ends the goroutine,
\* made without the backend.  A goroutine in its loop therefore ends, unless
\* the backend gives it more documents than the total it reported.
C30_TaskTerminates ==
    /\ [][ \A i \in Slots :
             /\ taskLast'[i] \in {"empty", "error"} => taskPc'[i] = "ended"
             /\ taskPc[i] = "ended" =>
                   /\ taskPc'[i] = "ended"
                   /\ cursors'[i] = cursors[i]
                   /\ yielded'[i] = yielded[i]
             /\ (TaskLoops(i)' /\ Known(Deref(cursors'[i])) /\ ~Overshot(i)') =>
                   /\ Batches(i)' <= Len(yielded'[i])
                   /\ Len(yielded'[i]) = Deref(Deref(cursors'[i]).NumDocsRetrieved)
                   /\ Batches(i)' <= Deref(Deref(cursors'[i]).Total)
             /\ (taskPc[i] = "next" /\ Exhausted(Deref(cursors[i]))
                    /\ <<taskPc[i], taskLast[i], cursors[i]>>' # <<taskPc[i], taskLast[i], cursors[i]>>) =>
                   /\ taskPc'[i] = "ended"
                   /\ taskLast'[i] = "empty"
                   /\ taskErr'[i] = NoErr
                   /\ cursors'[i] = cursors[i]
         ]_vars
    /\ \A i \in Slots : TaskLoops(i) ~> (taskPc[i] = "ended" \/ Overshot(i))

\* two batches of one document under a total of 2, then the empty batch
C30_Witness ==
    /\ cursors[0] # Nil
    /\ taskPc[0] = "ended"
    /\ taskLast[0] = "empty"
    /\ yielded[0] = <<1, 1>>
    /\ Batches(0) = 2
    /\ Deref(cursors[0]).Total = Ptr(2)
    /\ Deref(cursors[0]).NumDocsRetrieved = Ptr(2)

\* C31 (Spec): of two successive progress lines of a run, the final line
\* included, the later shows the same total and a current count that is not
\* lower; every line's total is the sum of the cursors' Total.  This rests
\* on each cursor: once set, its Total stays as it is and its
\* NumDocsRetrieved does not decrease, and within a tick the count already
\* read from a cursor is never above what the cursor holds.
C31_TotalConstantCurrentNonDecreasing ==
    [][ /\ (printed # Nil /\ printed' # printed) =>
              /\ printed' # Nil
              /\ Deref(printed').total = Deref(printed).total
              /\ Deref(printed').current >= Deref(printed).current
        /\ (printed' # Nil /\ printed' # printed) =>
              Deref(printed').total = SumTotal(sliceSize)'
        /\ \A i \in Slots :
              (cursors[i] # Nil /\ Deref(cursors[i]).Total # Nil) =>
                  /\ Deref(cursors'[i]).Total = Deref(cursors[i]).Total
                  /\ Deref(cursors[i]).NumDocsRetrieved # Nil =>
                        /\ Deref(cursors'[i]).NumDocsRetrieved # Nil
                        /\ Deref(Deref(cursors'[i]).NumDocsRetrieved)
                              >= Deref(Deref(cursors[i]).NumDocsRetrieved)
        /\ repPc = "read" =>
              /\ repC <= SumRetrieved(repK)
              /\ repT = SumTotal(repK)
      ]_vars

\* a line was emitted, both goroutines went on, and the tick now ending is
\* about to emit a higher count under the same total, having read cursor 0
\* before its latest batch
C31_Witness ==
    /\ sliceSize = 2
    /\ printed # Nil
    /\ ~Deref(printed).final
    /\ repPc = "read"
    /\ repK = 2
    /\ repT = Deref(printed).total
    /\ repC > Deref(printed).current
    /\ repC < SumRetrieved(2)
    /\ taskPc[0] = "next"
    /\ taskPc[1] = "next"

\* main makes a step of its creation loop
MainLoopSteps == mainPc = "loop" /\ mi < sliceSize /\ (mi' # mi \/ mainPc' # mainPc)

\* C32 (Spec): every pass of main's creation loop calls NewSlicedScrollCursor
\* with id = i, 0 <= i < sliceSize, and max = sliceSize, the call returns a
\* cursor and no error, and the loop goes on; so for every sliceSize >= 0
\* each cursor held has sliceID = its index and sliceMax = sliceSize, and
\* the exit with status 1 after "Error creating cursor" is never taken.
C32_ConstructionNeverFailsInMain ==
    [][ /\ exited' # Ptr(1)
        /\ MainLoopSteps =>
              /\ mi \in 0..(sliceSize - 1)
              /\ NewSlicedScrollCursor(mi, sliceSize, FlagSliceField, FlagQuery).err = NoErr
              /\ cursors'[mi] = NewSlicedScrollCursor(mi, sliceSize, FlagSliceField, FlagQuery).cursor
              /\ cursors'[mi] # Nil
              /\ mi' = mi + 1
              /\ mainPc' = "loop"
        /\ \A i \in Slots :
              cursors'[i] # Nil =>
                 /\ i < sliceSize
                 /\ Deref(cursors'[i]).sliceID = i
                 /\ Deref(cursors'[i]).sliceMax = sliceSize
        /\ \A i \in Slots : (i >= mi') => cursors'[i] = Nil
      ]_vars

\* the loop has run for both slices: the second call had id = 1, max = 2
C32_Witness ==
    /\ sliceSize = 2
    /\ mainPc = "loop"
    /\ mi = 2
    /\ exited = Nil
    /\ cursors[0] # Nil
    /\ cursors[1] # Nil
    /\ Deref(cursors[1]).sliceID = 1
    /\ Deref(cursors[1]).sliceMax = 2

\* C33 as stated (SpecPart000), for a run of at least one slice in which
\* every goroutine retrieved its whole slice: once main is past wg.Wait(),
\* at its send or at its receive on done, the handshake can go on, that is,
\* some goroutine can take a step.
C33_Original_HandshakeGoesOn ==
    (AllTasksSucceeded /\ exited = Nil /\ mainPc \in {"send", "recv"})
        => ENABLED NextPart000

====
